---- MODULE Spec2Model ----
(***************************************************************************)
(* A model of xgboost's JSON document codec (src/common/json.cc): the      *)
(* value kinds and their equality, the text writer and reader (JsonWriter, *)
(* JsonReader) and the binary writer and reader (UBJWriter, UBJReader).    *)
(*                                                                         *)
(* Buffers are sequences of bytes 0..255.  A 64-bit integer is its eight   *)
(* bytes, most significant first, in two's complement: TLC's own integers  *)
(* are 32 bits wide, and the byte form is what WritePrimitive emits.       *)
(***************************************************************************)
EXTENDS Integers, Sequences, FiniteSets, TLC

VARIABLES
  raw_str_,   \* the reader's input buffer (JsonReader::raw_str_)
  cursor_,    \* the reader's position in raw_str_ (JsonReader::cursor_.Pos())
  stack,      \* the reader's call stack: one frame per ParseArray/ParseObject in progress
  pc,         \* where the run is: a reader routine's position, or Done / Error / UB
  ret,        \* the value the last completed Parse() returned
  err,        \* what Error() reported: [msg, pos]
  doc,        \* the document handed to Json::Dump (Null when the run only loads)
  aux         \* the operation's other input and output (per specification)

vars == <<raw_str_, cursor_, stack, pc, ret, err, doc, aux>>

-----------------------------------------------------------------------------
(* Characters.  The programs's char literals, as their ASCII codes.        *)

AsciiTable ==
  ("{" :> 123) @@ ("}" :> 125) @@ ("[" :> 91) @@ ("]" :> 93) @@ ("," :> 44) @@
  (":" :> 58) @@ ("\"" :> 34) @@ ("\\" :> 92) @@ (" " :> 32) @@ ("-" :> 45) @@
  ("+" :> 43) @@ ("." :> 46) @@ ("0" :> 48) @@ ("1" :> 49) @@ ("2" :> 50) @@
  ("3" :> 51) @@ ("4" :> 52) @@ ("5" :> 53) @@ ("6" :> 54) @@ ("7" :> 55) @@
  ("8" :> 56) @@ ("9" :> 57) @@ ("a" :> 97) @@ ("b" :> 98) @@ ("d" :> 100) @@
  ("e" :> 101) @@ ("f" :> 102) @@ ("i" :> 105) @@ ("l" :> 108) @@ ("n" :> 110) @@
  ("r" :> 114) @@ ("s" :> 115) @@ ("t" :> 116) @@ ("u" :> 117) @@ ("y" :> 121) @@
  ("x" :> 120) @@ ("c" :> 99) @@
  ("C" :> 67) @@ ("D" :> 68) @@ ("E" :> 69) @@ ("F" :> 70) @@ ("H" :> 72) @@
  ("I" :> 73) @@ ("L" :> 76) @@ ("N" :> 78) @@ ("S" :> 83) @@ ("T" :> 84) @@
  ("U" :> 85) @@ ("Z" :> 90) @@ ("#" :> 35) @@ ("$" :> 36) @@
  ("\n" :> 10) @@ ("\r" :> 13) @@ ("\t" :> 9) @@ ("NUL" :> 0) @@ ("SOH" :> 1) @@
  ("BS" :> 8)

Ord(c) == AsciiTable[c]

\* The bytes of a text given as a tuple of one-character strings.
Str(cs) == [k \in 1..Len(cs) |-> Ord(cs[k])]

\* EOF: what GetNextChar and PeekNextChar return at the end of the buffer.
EndOfInput == 0 - 1

\* JsonReader::Char is std::int8_t: a byte read as a character is signed.
AsChar(b) == IF b >= 128 THEN b - 256 ELSE b

\* A character stored into a std::string, seen as a byte again.
AsByte(c) == IF c < 0 THEN c + 256 ELSE c

IsDigit(c) == c >= Ord("0") /\ c <= Ord("9")

-----------------------------------------------------------------------------
(* Fixed-width integers as byte strings, most significant byte first.      *)

Bytes(n) == [k \in 1..n |-> 0]

RECURSIVE Pow256(_)
Pow256(k) == IF k = 0 THEN 1 ELSE 256 * Pow256(k - 1)

\* The n-byte two's complement form of a small integer (|v| < 2^31).
IntBytes(v, n) ==
  [k \in 1..n |->
     IF n - k >= 4 THEN (IF v < 0 THEN 255 ELSE 0)
     ELSE ((v \div Pow256(n - k)) % 256)]

IsNegative(bs) == bs[1] >= 128

\* static_cast to a narrower integer type: the low n bytes.
Truncate(bs, n) == SubSeq(bs, Len(bs) - n + 1, Len(bs))

\* Widening a signed integer to n bytes.
SignExtend(bs, n) ==
  [k \in 1..(n - Len(bs)) |-> IF IsNegative(bs) THEN 255 ELSE 0] \o bs

\* Widening an unsigned integer to n bytes.
ZeroExtend(bs, n) == Bytes(n - Len(bs)) \o bs

\* Unsigned order on byte strings of one length.
RECURSIVE ULess(_, _)
ULess(a, b) ==
  IF Len(a) = 0 THEN FALSE
  ELSE IF a[1] # b[1] THEN a[1] < b[1]
  ELSE ULess(Tail(a), Tail(b))

\* Signed (two's complement) order on byte strings of one length.
SLess(a, b) ==
  IF IsNegative(a) # IsNegative(b) THEN IsNegative(a) ELSE ULess(a, b)

\* bs * 10 + d as an unsigned number of the same width: [val, carry].
RECURSIVE MulAdd10(_, _)
MulAdd10(bs, d) ==
  IF Len(bs) = 0 THEN [val |-> <<>>, carry |-> d]
  ELSE LET lo == MulAdd10(Tail(bs), d)
           t  == bs[1] * 10 + lo.carry
       IN [val |-> <<t % 256>> \o lo.val, carry |-> t \div 256]

\* Unsigned bs divided by 10: [quot, rem], the division running from the top byte
\* with the remainder rem0 carried in.
RECURSIVE DivMod10(_, _)
DivMod10(bs, rem0) ==
  IF Len(bs) = 0 THEN [quot |-> <<>>, rem |-> rem0]
  ELSE LET t    == rem0 * 256 + bs[1]
           rest == DivMod10(Tail(bs), t % 10)
       IN [quot |-> <<t \div 10>> \o rest.quot, rem |-> rest.rem]

IsZero(bs) == \A k \in 1..Len(bs) : bs[k] = 0

\* bs + 1, wrapping.
RECURSIVE Increment(_)
Increment(bs) ==
  IF Len(bs) = 0 THEN <<>>
  ELSE LET n == Len(bs)
       IN IF bs[n] = 255 THEN Increment(SubSeq(bs, 1, n - 1)) \o <<0>>
          ELSE SubSeq(bs, 1, n - 1) \o <<bs[n] + 1>>

\* Two's complement negation, wrapping (the minimum maps to itself).
Negate(bs) == Increment([k \in 1..Len(bs) |-> 255 - bs[k]])

\* The decimal digits (values 0..9) of an unsigned byte string, no leading zero.
RECURSIVE UDigits(_)
UDigits(bs) ==
  LET qr == DivMod10(bs, 0)
  IN IF IsZero(qr.quot) THEN <<qr.rem>> ELSE UDigits(qr.quot) \o <<qr.rem>>

\* The unsigned 8-byte value of a tuple of decimal digits (no overflow expected).
RECURSIVE FromDigits(_)
FromDigits(ds) ==
  IF Len(ds) = 0 THEN Bytes(8)
  ELSE MulAdd10(FromDigits(SubSeq(ds, 1, Len(ds) - 1)), ds[Len(ds)]).val

-----------------------------------------------------------------------------
(* Floating point values.  A float is NaN, an infinity, or a finite value  *)
(* identified with its shortest decimal form: the digits dig (no leading   *)
(* and no trailing zero; empty for zero) times 10^e10.  Rounding to the    *)
(* 24-bit or 53-bit significand is not modelled.  A bit pattern read from  *)
(* a binary buffer that is none of the sampled values stays a "raw" float. *)

NaN == [cls |-> "nan"]
Inf(neg) == [cls |-> "inf", neg |-> neg]
Fin(neg, dig, e10) == [cls |-> "fin", neg |-> neg, dig |-> dig, e10 |-> e10]
RawFloat(bits) == [cls |-> "raw", bits |-> bits]

isnan(f) == f.cls = "nan"
isinf(f) == f.cls = "inf"

\* a - b == 0 in IEEE arithmetic, for a that is neither NaN nor infinite:
\* b is finite too and has the same value (the two zeros are one value).
DifferenceIsZero(a, b) ==
  CASE a.cls = "fin" /\ b.cls = "fin" ->
         \/ (a.dig = <<>> /\ b.dig = <<>>)
         \/ (a.neg = b.neg /\ a.dig = b.dig /\ a.e10 = b.e10)
    [] a.cls = "raw" /\ b.cls = "raw" -> a.bits = b.bits
    [] OTHER -> FALSE

\* a == b in IEEE arithmetic (what std::equal applies to double elements).
IeeeEqual(a, b) ==
  CASE isnan(a) \/ isnan(b) -> FALSE
    [] isinf(a) \/ isinf(b) -> isinf(a) /\ isinf(b) /\ a.neg = b.neg
    [] OTHER -> DifferenceIsZero(a, b)

-----------------------------------------------------------------------------
(* Values.  A document is a value; an Array holds values, an Object holds  *)
(* a std::map from keys to values: a sequence of <<key, value>> pairs kept *)
(* in ascending key order, one pair per key.                               *)

Null == [kind |-> "Null"]
Boolean(b) == [kind |-> "Boolean", boolean_ |-> b]
Integer(i) == [kind |-> "Integer", integer_ |-> i]
Number(f) == [kind |-> "Number", number_ |-> f]
String(s) == [kind |-> "String", str_ |-> s]
Array(v) == [kind |-> "Array", vec_ |-> v]
Object(m) == [kind |-> "Object", object_ |-> m]
TypedArray(k, v) == [kind |-> k, vec_ |-> v]

IntegerArrayKinds ==
  {"I8Array", "U8Array", "I16Array", "U16Array", "I32Array", "U32Array",
   "I64Array", "U64Array"}
TypedArrayKinds == {"F32Array", "F64Array"} \cup IntegerArrayKinds

\* sizeof(T) of a typed array's element type.
ElemSize(k) ==
  CASE k \in {"I8Array", "U8Array"} -> 1
    [] k \in {"I16Array", "U16Array"} -> 2
    [] k \in {"I32Array", "U32Array", "F32Array"} -> 4
    [] OTHER -> 8

IsUnsignedKind(k) == k \in {"U8Array", "U16Array", "U32Array", "U64Array"}

\* std::string's operator<: bytes compared as unsigned, a prefix first.
RECURSIVE KeyLess(_, _)
KeyLess(a, b) ==
  IF Len(b) = 0 THEN FALSE
  ELSE IF Len(a) = 0 THEN TRUE
  ELSE IF a[1] # b[1] THEN a[1] < b[1]
  ELSE KeyLess(Tail(a), Tail(b))

MapHas(m, k) == \E j \in 1..Len(m) : m[j][1] = k

MapGet(m, k) == m[CHOOSE j \in 1..Len(m) : m[j][1] = k][2]

\* The place of a new key k: after every smaller key.
MapInsertAt(m, k) == Cardinality({j \in 1..Len(m) : KeyLess(m[j][1], k)})

MapInsert(m, k, v) ==
  LET at == MapInsertAt(m, k)
  IN SubSeq(m, 1, at) \o << <<k, v>> >> \o SubSeq(m, at + 1, Len(m))

\* std::map::emplace: inserts only when the key is absent.
MapEmplace(m, k, v) == IF MapHas(m, k) THEN m ELSE MapInsert(m, k, v)

\* map[k] = v: inserts, or overwrites the value the key holds.
MapAssign(m, k, v) ==
  IF MapHas(m, k)
  THEN [j \in 1..Len(m) |-> IF m[j][1] = k THEN <<k, v>> ELSE m[j]]
  ELSE MapInsert(m, k, v)

IsSortedMap(m) == \A j \in 1..(Len(m) - 1) : KeyLess(m[j][1], m[j + 1][1])

-----------------------------------------------------------------------------
(* Structural equality: Value::operator== of each kind.                    *)

\* A test that takes every node for a node of the kind asked for.
AnyKind(v, kind) == TRUE

\* IsA<T>(value): whether the node is of the kind of T.
IsA(v, kind) == v.kind = kind

JsonNumberEq(number_, r_num) ==
  IF isinf(number_) THEN isinf(r_num)
  ELSE IF isnan(number_) THEN isnan(r_num)
  ELSE DifferenceIsZero(number_, r_num)

\* One element of the float branch of JsonTypedArray::operator==.
F32ElemEq(v, a) ==
  IF isnan(v) THEN isnan(a)
  ELSE IF isinf(v) THEN isinf(a)
  ELSE DifferenceIsZero(a, v)

JsonTypedArrayEq(lhs, rhs) ==
  IF ~IsA(rhs, lhs.kind) THEN FALSE
  ELSE IF Len(lhs.vec_) # Len(rhs.vec_) THEN FALSE
  ELSE IF lhs.kind = "F32Array"
  THEN \A j \in 1..Len(lhs.vec_) : F32ElemEq(lhs.vec_[j], rhs.vec_[j])
  ELSE IF lhs.kind = "F64Array"
  THEN \A j \in 1..Len(lhs.vec_) : IeeeEqual(rhs.vec_[j], lhs.vec_[j])
  ELSE \A j \in 1..Len(lhs.vec_) : rhs.vec_[j] = lhs.vec_[j]

RECURSIVE Equal(_, _)
JsonArrayEq(lhs, rhs) ==
  IF ~IsA(rhs, "Array") THEN FALSE
  ELSE IF Len(lhs.vec_) # Len(rhs.vec_) THEN FALSE
  ELSE \A j \in 1..Len(lhs.vec_) : Equal(rhs.vec_[j], lhs.vec_[j])

JsonObjectEq(lhs, rhs) ==
  IF ~IsA(rhs, "Object") THEN FALSE
  ELSE /\ Len(lhs.object_) = Len(rhs.object_)
       /\ \A j \in 1..Len(lhs.object_) :
            /\ lhs.object_[j][1] = rhs.object_[j][1]
            /\ Equal(lhs.object_[j][2], rhs.object_[j][2])

JsonStringEq(lhs, rhs) == IF ~IsA(rhs, "String") THEN FALSE ELSE rhs.str_ = lhs.str_

JsonNumberNodeEq(lhs, rhs) ==
  IF ~IsA(rhs, "Number") THEN FALSE ELSE JsonNumberEq(lhs.number_, rhs.number_)

JsonIntegerEq(lhs, rhs) ==
  IF ~IsA(rhs, "Integer") THEN FALSE ELSE lhs.integer_ = rhs.integer_

JsonNullEq(lhs, rhs) == IF ~IsA(rhs, "Null") THEN FALSE ELSE TRUE

JsonBooleanEq(lhs, rhs) ==
  IF ~IsA(rhs, "Boolean") THEN FALSE ELSE lhs.boolean_ = rhs.boolean_

\* Json::operator==: the left node's operator== applied to the right node.
Equal(lhs, rhs) ==
  CASE lhs.kind = "Object" -> JsonObjectEq(lhs, rhs)
    [] lhs.kind = "Array" -> JsonArrayEq(lhs, rhs)
    [] lhs.kind = "String" -> JsonStringEq(lhs, rhs)
    [] lhs.kind = "Number" -> JsonNumberNodeEq(lhs, rhs)
    [] lhs.kind = "Integer" -> JsonIntegerEq(lhs, rhs)
    [] lhs.kind = "Null" -> JsonNullEq(lhs, rhs)
    [] lhs.kind = "Boolean" -> JsonBooleanEq(lhs, rhs)
    [] OTHER -> JsonTypedArrayEq(lhs, rhs)

\* Whether lhs == rhs ends in LOG(FATAL): Cast<T>(&rhs) is reached for a node
\* that is not a T.  Every operator== tests IsA<T>(&rhs) before its Cast, and
\* the elements of two containers are compared in turn up to the first pair
\* that differs.
RECURSIVE Raises(_, _)
Raises(lhs, rhs) ==
  IF ~IsA(rhs, lhs.kind) THEN FALSE
  ELSE IF rhs.kind # lhs.kind THEN TRUE
  ELSE CASE lhs.kind = "Array" ->
              /\ Len(lhs.vec_) = Len(rhs.vec_)
              /\ \E j \in 1..Len(lhs.vec_) :
                   /\ Raises(rhs.vec_[j], lhs.vec_[j])
                   /\ \A i \in 1..(j - 1) :
                        /\ ~Raises(rhs.vec_[i], lhs.vec_[i])
                        /\ Equal(rhs.vec_[i], lhs.vec_[i])
         [] lhs.kind = "Object" ->
              /\ Len(lhs.object_) = Len(rhs.object_)
              /\ \E j \in 1..Len(lhs.object_) :
                   /\ lhs.object_[j][1] = rhs.object_[j][1]
                   /\ Raises(lhs.object_[j][2], rhs.object_[j][2])
                   /\ \A i \in 1..(j - 1) :
                        /\ lhs.object_[i][1] = rhs.object_[i][1]
                        /\ ~Raises(lhs.object_[i][2], rhs.object_[i][2])
                        /\ Equal(lhs.object_[i][2], rhs.object_[i][2])
         [] OTHER -> FALSE

-----------------------------------------------------------------------------
(* IEEE-754 bit patterns (most significant byte first) of the sampled      *)
(* finite values, and the conversions between a float and its bytes that   *)
(* WritePrimitive / ReadPrimitive perform with memcpy.                     *)

Zero(neg) == Fin(neg, <<>>, 0)
One(neg) == Fin(neg, <<1>>, 0)
Half == Fin(FALSE, <<5>>, 0 - 1)
TwoAndHalf == Fin(FALSE, <<2, 5>>, 0 - 1)

FloatSamples == {Zero(FALSE), Zero(TRUE), One(FALSE), One(TRUE), Half, TwoAndHalf}

\* The first two bytes of a sampled value's pattern, in single and double precision
\* (every other byte of these patterns is zero).
F32Top(f) ==
  CASE f = Zero(FALSE) -> <<0, 0>>
    [] f = Zero(TRUE) -> <<128, 0>>
    [] f = One(FALSE) -> <<63, 128>>
    [] f = One(TRUE) -> <<191, 128>>
    [] f = Half -> <<63, 0>>
    [] f = TwoAndHalf -> <<64, 32>>

F64Top(f) ==
  CASE f = Zero(FALSE) -> <<0, 0>>
    [] f = Zero(TRUE) -> <<128, 0>>
    [] f = One(FALSE) -> <<63, 240>>
    [] f = One(TRUE) -> <<191, 240>>
    [] f = Half -> <<63, 224>>
    [] f = TwoAndHalf -> <<64, 4>>

\* The bytes of a float (n = 4) or a double (n = 8).
FloatBytes(f, n) ==
  CASE f.cls = "raw" -> f.bits
    [] f.cls = "nan" -> (IF n = 4 THEN <<127, 192>> ELSE <<127, 248>>) \o Bytes(n - 2)
    [] f.cls = "inf" ->
         (IF n = 4 THEN <<(IF f.neg THEN 255 ELSE 127), 128>>
          ELSE <<(IF f.neg THEN 255 ELSE 127), 240>>) \o Bytes(n - 2)
    [] OTHER -> (IF n = 4 THEN F32Top(f) ELSE F64Top(f)) \o Bytes(n - 2)

\* The float a bit pattern stands for.
BytesFloat(bs) ==
  LET n == Len(bs)
      expAllOnes ==
        IF n = 4 THEN bs[1] % 128 = 127 /\ bs[2] >= 128
        ELSE bs[1] % 128 = 127 /\ bs[2] >= 240
      mantZero ==
        /\ (IF n = 4 THEN bs[2] % 128 = 0 ELSE bs[2] % 16 = 0)
        /\ \A k \in 3..n : bs[k] = 0
      hits == {f \in FloatSamples : FloatBytes(f, n) = bs}
  IN IF expAllOnes THEN (IF mantZero THEN Inf(bs[1] >= 128) ELSE NaN)
     ELSE IF hits # {} THEN CHOOSE f \in hits : TRUE
     ELSE RawFloat(bs)

-----------------------------------------------------------------------------
(* Number formatting: to_chars for int64 and for float.                    *)

DigitChars(ds) == [k \in 1..Len(ds) |-> Ord("0") + ds[k]]

\* The decimal digits of a natural number.
RECURSIVE NatDigits(_)
NatDigits(n) == IF n < 10 THEN <<n>> ELSE NatDigits(n \div 10) \o <<n % 10>>

\* to_chars(int64): an optional '-' and the decimal digits of the magnitude.
IntegerText(i) ==
  IF IsNegative(i) THEN <<Ord("-")>> \o DigitChars(UDigits(Negate(i)))
  ELSE DigitChars(UDigits(i))

\* to_chars(float): NaN, Infinity, -Infinity, or the shortest decimal form in
\* scientific notation, d[.ddd]E[-]x.
FloatText(f) ==
  CASE f.cls = "nan" -> Str(<<"N", "a", "N">>)
    [] f.cls = "inf" ->
         (IF f.neg THEN <<Ord("-")>> ELSE <<>>)
           \o Str(<<"I", "n", "f", "i", "n", "i", "t", "y">>)
    [] f.cls = "fin" ->
         LET ds == IF f.dig = <<>> THEN <<0>> ELSE f.dig
             ex == f.e10 + Len(ds) - 1
         IN (IF f.neg THEN <<Ord("-")>> ELSE <<>>)
              \o DigitChars(<<ds[1]>>)
              \o (IF Len(ds) > 1 THEN <<Ord(".")>> \o DigitChars(Tail(ds)) ELSE <<>>)
              \o <<Ord("E")>>
              \o (IF ex < 0 THEN <<Ord("-")>> \o DigitChars(NatDigits(0 - ex))
                  ELSE DigitChars(NatDigits(ex)))

-----------------------------------------------------------------------------
(* The text writer: JsonWriter.                                            *)

HexChar(n) == IF n < 10 THEN Ord("0") + n ELSE Ord("a") + (n - 10)

\* common::EscapeU8 on one byte.
EscapeByte(b) ==
  CASE b = Ord("\\") -> <<Ord("\\"), Ord("\\")>>
    [] b = Ord("\"") -> <<Ord("\\"), Ord("\"")>>
    [] b = Ord("\n") -> <<Ord("\\"), Ord("n")>>
    [] b = Ord("\r") -> <<Ord("\\"), Ord("r")>>
    [] b = Ord("\t") -> <<Ord("\\"), Ord("t")>>
    [] b < 32 \/ b >= 128 ->
         <<Ord("\\"), Ord("u"), Ord("0"), Ord("0"), HexChar(b \div 16), HexChar(b % 16)>>
    [] OTHER -> <<b>>

RECURSIVE EscapeU8(_)
EscapeU8(s) == IF Len(s) = 0 THEN <<>> ELSE EscapeByte(s[1]) \o EscapeU8(Tail(s))

JsonWriterVisitString(s) == <<Ord("\"")>> \o EscapeU8(s) \o <<Ord("\"")>>

JsonWriterVisitNumber(f) == FloatText(f)

JsonWriterVisitInteger(i) == IntegerText(i)

JsonWriterVisitNull == Str(<<"n", "u", "l", "l">>)

JsonWriterVisitBoolean(b) ==
  IF b THEN Str(<<"t", "r", "u", "e">>) ELSE Str(<<"f", "a", "l", "s", "e">>)

\* to_i64: static_cast<int64_t> of an integer element of a typed array of kind k.
to_i64(k, v) == IF IsUnsignedKind(k) THEN ZeroExtend(v, 8) ELSE SignExtend(v, 8)

\* The value a typed array's element is reboxed as before it is written.
Rebox(k, v) ==
  IF k \in {"F32Array", "F64Array"} THEN Number(v) ELSE Integer(to_i64(k, v))

RECURSIVE JsonWriterSave(_)
\* WriteArray: '[', the elements joined by ',', ']'.
RECURSIVE WriteArrayFrom(_, _)
WriteArrayFrom(vs, j) ==
  IF j > Len(vs) THEN <<>>
  ELSE JsonWriterSave(vs[j])
         \o (IF j # Len(vs) THEN <<Ord(",")>> ELSE <<>>)
         \o WriteArrayFrom(vs, j + 1)

WriteArray(vs) == <<Ord("[")>> \o WriteArrayFrom(vs, 1) \o <<Ord("]")>>

RECURSIVE WriteFieldsFrom(_, _)
WriteFieldsFrom(m, j) ==
  IF j > Len(m) THEN <<>>
  ELSE JsonWriterVisitString(m[j][1]) \o <<Ord(":")>> \o JsonWriterSave(m[j][2])
         \o (IF j # Len(m) THEN <<Ord(",")>> ELSE <<>>)
         \o WriteFieldsFrom(m, j + 1)

JsonWriterVisitObject(m) == <<Ord("{")>> \o WriteFieldsFrom(m, 1) \o <<Ord("}")>>

JsonWriterVisitTypedArray(k, vs) ==
  WriteArray([j \in 1..Len(vs) |-> Rebox(k, vs[j])])

JsonWriterSave(v) ==
  CASE v.kind = "Object" -> JsonWriterVisitObject(v.object_)
    [] v.kind = "Array" -> WriteArray(v.vec_)
    [] v.kind = "String" -> JsonWriterVisitString(v.str_)
    [] v.kind = "Number" -> JsonWriterVisitNumber(v.number_)
    [] v.kind = "Integer" -> JsonWriterVisitInteger(v.integer_)
    [] v.kind = "Null" -> JsonWriterVisitNull
    [] v.kind = "Boolean" -> JsonWriterVisitBoolean(v.boolean_)
    [] OTHER -> JsonWriterVisitTypedArray(v.kind, v.vec_)

-----------------------------------------------------------------------------
(* The binary writer: UBJWriter.                                           *)

\* The bytes of a value in reverse order.
Reverse(bs) == [k \in 1..Len(bs) |-> bs[Len(bs) + 1 - k]]

\* ToBigEndian on a little-endian host: the value with its bytes swapped.
ToBigEndian(v) == Reverse(v)

\* memcpy of a value to or from the stream: the host keeps the least
\* significant byte first.
MemoryImage(v) == Reverse(v)

\* WritePrimitive: the bytes appended to the stream for the value v.
WritePrimitive(v) == MemoryImage(ToBigEndian(v))

EncodeStr(string) == <<Ord("L")>> \o WritePrimitive(IntBytes(Len(string), 8)) \o string

\* The largest value of the unsigned type of n bytes, as int64.
UnsignedMax(n) == ZeroExtend([k \in 1..n |-> 255], 8)

\* std::numeric_limits<T>::min() and max() of the signed type of n bytes, as int64.
NumericMin(n) == SignExtend(<<128>> \o Bytes(n - 1), 8)
NumericMax(n) == ZeroExtend(<<127>> \o [k \in 1..(n - 1) |-> 255], 8)

UBJWriterVisitInteger(i) ==
  IF SLess(NumericMin(1), i) /\ SLess(i, NumericMax(1))
  THEN <<Ord("i")>> \o WritePrimitive(Truncate(i, 1))
  ELSE IF SLess(NumericMin(2), i) /\ SLess(i, NumericMax(2))
  THEN <<Ord("I")>> \o WritePrimitive(Truncate(i, 2))
  ELSE IF SLess(NumericMin(4), i) /\ SLess(i, NumericMax(4))
  THEN <<Ord("l")>> \o WritePrimitive(Truncate(i, 4))
  ELSE <<Ord("L")>> \o WritePrimitive(i)

UBJWriterVisitNumber(f) == <<Ord("d")>> \o WritePrimitive(FloatBytes(f, 4))

UBJWriterVisitNull == <<Ord("Z")>>

UBJWriterVisitString(s) == <<Ord("S")>> \o EncodeStr(s)

UBJWriterVisitBoolean(b) == <<IF b THEN Ord("T") ELSE Ord("F")>>

\* The type code WriteTypedArray pushes for an element type; "" on the branch that
\* ends in LOG(FATAL) << "Not implemented".
TypeCode(k) ==
  CASE k = "F32Array" -> "d"
    [] k = "F64Array" -> "D"
    [] k = "I8Array" -> "i"
    [] k = "U8Array" -> "U"
    [] k = "I16Array" -> "I"
    [] k = "I32Array" -> "l"
    [] k = "I64Array" -> "L"
    [] OTHER -> ""

\* An element written with the marker of its type before it.
MarkedElem(k, v) ==
  <<Ord(TypeCode(k))>>
    \o MemoryImage(ToBigEndian(IF k \in {"F32Array", "F64Array"}
                                THEN FloatBytes(v, ElemSize(k)) ELSE v))

\* The bytes of one element of a typed array of kind k.
ElemBytes(k, v) ==
  MemoryImage(ToBigEndian(IF k \in {"F32Array", "F64Array"}
                            THEN FloatBytes(v, ElemSize(k)) ELSE v))

RECURSIVE PackedFrom(_, _, _)
PackedFrom(k, vs, j) ==
  IF j > Len(vs) THEN <<>> ELSE ElemBytes(k, vs[j]) \o PackedFrom(k, vs, j + 1)

WriteTypedArray(k, vs) ==
  <<Ord("["), Ord("$"), Ord(TypeCode(k)), Ord("#"), Ord("L")>>
    \o WritePrimitive(IntBytes(Len(vs), 8))
    \o PackedFrom(k, vs, 1)

RECURSIVE UBJWriterSave(_)
RECURSIVE UBJElementsFrom(_, _)
UBJElementsFrom(vs, j) ==
  IF j > Len(vs) THEN <<>> ELSE UBJWriterSave(vs[j]) \o UBJElementsFrom(vs, j + 1)

\* The typed arrays UBJWriter has a Visit of its own for.
UBJVisited ==
  {"F32Array", "F64Array", "I8Array", "U8Array", "I16Array", "I32Array", "I64Array"}

\* A typed array of another kind reaches the Visit that UBJWriter inherits from
\* JsonWriter: WriteArray writes '[', the elements joined by ',', and ']', and
\* saves each reboxed element through the binary writer.
RECURSIVE UBJWriteArrayFrom(_, _, _)
UBJWriteArrayFrom(k, vs, j) ==
  IF j > Len(vs) THEN <<>>
  ELSE UBJWriterSave(Rebox(k, vs[j]))
         \o (IF j # Len(vs) THEN <<Ord(",")>> ELSE <<>>)
         \o UBJWriteArrayFrom(k, vs, j + 1)

UBJInheritedVisit(k, vs) == <<Ord("[")>> \o UBJWriteArrayFrom(k, vs, 1) \o <<Ord("]")>>

\* A counted array written with a closing bracket after its elements.
ClosedArray(vs) ==
  <<Ord("["), Ord("#"), Ord("L")>>
    \o WritePrimitive(IntBytes(Len(vs), 8))
    \o UBJElementsFrom(vs, 1)
    \o <<Ord("]")>>

UBJWriterVisitArray(vs) ==
  <<Ord("["), Ord("#"), Ord("L")>>
    \o WritePrimitive(IntBytes(Len(vs), 8))
    \o UBJElementsFrom(vs, 1)

RECURSIVE UBJFieldsFrom(_, _)
UBJFieldsFrom(m, j) ==
  IF j > Len(m) THEN <<>>
  ELSE EncodeStr(m[j][1]) \o UBJWriterSave(m[j][2]) \o UBJFieldsFrom(m, j + 1)

UBJWriterVisitObject(m) == <<Ord("{")>> \o UBJFieldsFrom(m, 1) \o <<Ord("}")>>

UBJWriterSave(v) ==
  CASE v.kind = "Object" -> UBJWriterVisitObject(v.object_)
    [] v.kind = "Array" -> UBJWriterVisitArray(v.vec_)
    [] v.kind = "String" -> UBJWriterVisitString(v.str_)
    [] v.kind = "Number" -> UBJWriterVisitNumber(v.number_)
    [] v.kind = "Integer" -> UBJWriterVisitInteger(v.integer_)
    [] v.kind = "Null" -> UBJWriterVisitNull
    [] v.kind = "Boolean" -> UBJWriterVisitBoolean(v.boolean_)
    [] v.kind \in UBJVisited -> WriteTypedArray(v.kind, v.vec_)
    [] OTHER -> UBJInheritedVisit(v.kind, v.vec_)

\* A buffer left as the caller handed it over.
Keep(str) == str

\* str->clear() of Json::Dump: the buffer the writer starts from.
Clear(str) == <<>>

\* Json::Dump(json, str, mode): the bytes the writer of the mode produces.
JsonDump(json, binary) ==
  IF binary THEN UBJWriterSave(json) ELSE JsonWriterSave(json)

-----------------------------------------------------------------------------
(* The reader's cursor primitives (JsonReader, shared by UBJReader).       *)

PeekNextChar(s, p) == IF p = Len(s) THEN EndOfInput ELSE AsChar(s[p + 1])

\* [ch, pos]: the character read and the cursor after it.
GetNextChar(s, p) ==
  IF p = Len(s) THEN [ch |-> EndOfInput, pos |-> p]
  ELSE [ch |-> AsChar(s[p + 1]), pos |-> p + 1]

\* No character taken for a space.
NoSpace(c) == FALSE

IsSpace(c) == c = Ord(" ") \/ c = Ord("\n") \/ c = Ord("\r") \/ c = Ord("\t")

\* The cursor taken back to the start of the buffer.
Rewind(s, p) == 0

RECURSIVE SkipSpaces(_, _)
SkipSpaces(s, p) ==
  IF p < Len(s) /\ IsSpace(AsChar(s[p + 1])) THEN SkipSpaces(s, p + 1) ELSE p

GetNextNonSpaceChar(s, p) == GetNextChar(s, SkipSpaces(s, p))

\* The outcome of a parse routine: a value and the cursor after it, or a failure.
Ok(val, pos) == [ok |-> TRUE, val |-> val, pos |-> pos, ub |-> FALSE]

\* A failure that carries the position after the character at the cursor.
ErrorPastCursor(msg, pos) == [ok |-> FALSE, msg |-> msg, pos |-> pos + 1]

\* JsonReader::Error: the failure carries the message and cursor_.Pos().
Error(msg, pos) == [ok |-> FALSE, msg |-> msg, pos |-> pos]

\* JsonReader::Expect: the failure names the expected and the received character.
Expect(c, got, pos) ==
  [ok |-> FALSE, msg |-> "Expecting", pos |-> pos, expected |-> c, got |-> got]

\* GetConsecutiveChar for each character of cs in turn: the cursor after them, or
\* the failure of the first that does not match.
RECURSIVE GetConsecutiveChars(_, _, _)
GetConsecutiveChars(s, p, cs) ==
  IF Len(cs) = 0 THEN Ok(Null, p)
  ELSE LET g == GetNextChar(s, p)
       IN IF g.ch # cs[1] THEN Expect(cs[1], g.ch, g.pos)
          ELSE GetConsecutiveChars(s, g.pos, Tail(cs))

GetConsecutiveChar(s, p, c) == GetConsecutiveChars(s, p, <<c>>)

-----------------------------------------------------------------------------
(* The text reader's scalar routines: JsonReader::ParseString, ParseNull,   *)
(* ParseBoolean and ParseNumber, each from the cursor p to its outcome.    *)

\* The loop of ParseString, the opening quote consumed, str holding the bytes so far.
RECURSIVE ParseStringLoop(_, _, _)
ParseStringLoop(s, p, str) ==
  LET g  == GetNextChar(s, p)
      ch == g.ch
  IN IF ch = Ord("\\")
     THEN LET n == GetNextChar(s, g.pos)
          IN CASE n.ch = Ord("r") -> ParseStringLoop(s, n.pos, str \o <<Ord("\r")>>)
               [] n.ch = Ord("n") -> ParseStringLoop(s, n.pos, str \o <<Ord("\n")>>)
               [] n.ch = Ord("\\") -> ParseStringLoop(s, n.pos, str \o <<Ord("\\")>>)
               [] n.ch = Ord("t") -> ParseStringLoop(s, n.pos, str \o <<Ord("\t")>>)
               [] n.ch = Ord("\"") -> ParseStringLoop(s, n.pos, str \o <<Ord("\"")>>)
               [] n.ch = Ord("u") ->
                    ParseStringLoop(s, n.pos, str \o <<AsByte(ch), Ord("u")>>)
               [] OTHER -> Error("Unknown escape", n.pos)
     ELSE IF ch = Ord("\"") THEN Ok(String(str), g.pos)
     ELSE IF ch = EndOfInput \/ ch = Ord("\r") \/ ch = Ord("\n")
     THEN Expect(Ord("\""), ch, g.pos)
     ELSE ParseStringLoop(s, g.pos, str \o <<AsByte(ch)>>)

ParseString(s, p) ==
  LET q == GetConsecutiveChar(s, p, Ord("\""))
  IN IF ~q.ok THEN q ELSE ParseStringLoop(s, q.pos, <<>>)

ParseNull(s, p) ==
  LET g0 == GetNextNonSpaceChar(s, p)
      g1 == GetNextChar(s, g0.pos)
      g2 == GetNextChar(s, g1.pos)
      g3 == GetNextChar(s, g2.pos)
      buffer == <<g0.ch, g1.ch, g2.ch, g3.ch>>
  IN IF buffer # Str(<<"n", "u", "l", "l">>)
     THEN Error("Expecting null value \"null\"", g3.pos)
     ELSE Ok(Null, g3.pos)

ParseBoolean(s, p) ==
  LET g == GetNextNonSpaceChar(s, p)
  IN IF g.ch = Ord("t")
     THEN LET q == GetConsecutiveChars(s, g.pos, Str(<<"r", "u", "e">>))
          IN IF ~q.ok THEN q ELSE Ok(Boolean(TRUE), q.pos)
     ELSE LET q == GetConsecutiveChars(s, g.pos, Str(<<"a", "l", "s", "e">>))
          IN IF ~q.ok THEN q ELSE Ok(Boolean(FALSE), q.pos)

\* *p of ParseNumber's raw pointer: the byte at offset k, and the terminating NUL
\* of the caller's string at the end of the buffer.
CharAt(s, k) == IF k < Len(s) THEN AsChar(s[k + 1]) ELSE 0

\* A run of digits from offset k, accumulated as i = i * 10 + digit in int64:
\* [p, i, ds, ovf], with ovf set once the sum leaves the int64 range (signed
\* overflow: undefined behaviour; i then holds the wrapped sum).
RECURSIVE ScanDigits(_, _, _, _, _)
ScanDigits(s, k, i, ds, ovf) ==
  IF IsDigit(CharAt(s, k))
  THEN LET d == CharAt(s, k) - Ord("0")
           m == MulAdd10(i, d)
       IN ScanDigits(s, k + 1, m.val, ds \o <<d>>,
                     ovf \/ m.carry # 0 \/ IsNegative(m.val))
  ELSE [p |-> k, i |-> i, ds |-> ds, ovf |-> ovf]

RECURSIVE StripLeadingZeros(_)
StripLeadingZeros(ds) ==
  IF Len(ds) > 0 /\ ds[1] = 0 THEN StripLeadingZeros(Tail(ds)) ELSE ds

RECURSIVE NatOfDigits(_)
NatOfDigits(ds) ==
  IF Len(ds) = 0 THEN 0 ELSE NatOfDigits(SubSeq(ds, 1, Len(ds) - 1)) * 10 + ds[Len(ds)]

\* The finite float with the decimal digits ds times 10^e10, in shortest form.
RECURSIVE Shortest(_, _, _)
Shortest(neg, ds, e10) ==
  IF Len(ds) = 0 THEN Zero(neg)
  ELSE IF ds[Len(ds)] = 0 THEN Shortest(neg, SubSeq(ds, 1, Len(ds) - 1), e10 + 1)
  ELSE Fin(neg, ds, e10)

\* from_chars (and strtof where it fails) on a literal: sign, integer digits,
\* fraction digits and exponent.  A literal without any mantissa digit is no
\* number for either: the result is 0.
from_chars(neg, intDs, fracDs, ex) ==
  IF Len(intDs) + Len(fracDs) = 0 THEN Zero(FALSE)
  ELSE Shortest(neg, StripLeadingZeros(intDs \o fracDs), ex - Len(fracDs))

ParseNumber(s, beg) ==
  IF CharAt(s, beg) = Ord("N")
  THEN LET q == GetConsecutiveChars(s, beg, Str(<<"N", "a", "N">>))
       IN IF ~q.ok THEN q ELSE Ok(Number(NaN), q.pos)
  ELSE
  LET negative == CharAt(s, beg) = Ord("-")
      p0 == IF CharAt(s, beg) \in {Ord("-"), Ord("+")} THEN beg + 1 ELSE beg
  IN IF CharAt(s, p0) = Ord("I")
     THEN LET q == GetConsecutiveChars(s, p0,
                     Str(<<"I", "n", "f", "i", "n", "i", "t", "y">>))
          IN IF ~q.ok THEN q ELSE Ok(Number(Inf(negative)), q.pos)
     ELSE
     LET p1   == IF CharAt(s, p0) = Ord("0") THEN p0 + 1 ELSE p0
         lead == IF p1 > p0 THEN <<0>> ELSE <<>>
         int  == ScanDigits(s, p1, Bytes(8), lead, FALSE)
         dot  == CharAt(s, int.p) = Ord(".")
         frac == IF dot THEN ScanDigits(s, int.p + 1, int.i, <<>>, int.ovf)
                 ELSE [p |-> int.p, i |-> int.i, ds |-> <<>>, ovf |-> int.ovf]
         hasE == CharAt(s, frac.p) \in {Ord("E"), Ord("e")}
         p2   == frac.p + 1
         eNeg == CharAt(s, p2) = Ord("-")
         p3   == IF CharAt(s, p2) \in {Ord("-"), Ord("+")} THEN p2 + 1 ELSE p2
         exp  == ScanDigits(s, p3, Bytes(8), <<>>, FALSE)
         p    == IF hasE THEN exp.p ELSE frac.p
         ex   == IF ~hasE THEN 0
                 ELSE IF eNeg THEN 0 - NatOfDigits(exp.ds) ELSE NatOfDigits(exp.ds)
         is_float == dot \/ hasE
     IN IF hasE /\ ~IsDigit(CharAt(s, p3))
        THEN Error("Expecting digit", beg)
        ELSE IF is_float
        THEN [Ok(Number(from_chars(negative, int.ds, frac.ds, ex)), p)
                EXCEPT !.ub = frac.ovf]
        ELSE [Ok(Integer(IF negative THEN Negate(int.i) ELSE int.i), p)
                EXCEPT !.ub = int.ovf]

-----------------------------------------------------------------------------
(* The readers as step machines.  A step runs one routine from its entry,  *)
(* or from the return of the Parse() it called, to its next call, return   *)
(* or failure.  Its outcome is the next cursor, stack, position and result;*)
(* a routine with undefined behaviour has more than one outcome.           *)

\* The most elements of a vector under construction the model records: a loop that
\* appends without end keeps appending, its vector is tracked up to here.
MaxVec == 6

NoError == [ok |-> TRUE]

Top(stk) == stk[Len(stk)]
Pop(stk) == SubSeq(stk, 1, Len(stk) - 1)
ReplaceTop(stk, f) == Pop(stk) \o <<f>>

\* emplace_back on a vector under construction.
EmplaceBack(data, v) == IF Len(data) < MaxVec THEN Append(data, v) ELSE data

\* Control passes to the routine position l.
Goto(l, p, stk) == [pos |-> p, stack |-> stk, pc |-> l, ret |-> Null, err |-> NoError]

\* Parse() returns v: to the routine that called it, or from Load to the caller.
Return(v, p, stk) ==
  IF Len(stk) = 0
  THEN [pos |-> p, stack |-> stk, pc |-> "Done", ret |-> v, err |-> NoError]
  ELSE [pos |-> p, stack |-> stk, pc |-> Top(stk).resume, ret |-> v, err |-> NoError]

\* LOG(FATAL) throws: the parse is abandoned, no document is returned.
Throw(f) == [pos |-> f.pos, stack |-> <<>>, pc |-> "Error", ret |-> Null, err |-> f]

\* The run has executed undefined behaviour: nothing is known of what follows.
Undefined(p) == [pos |-> p, stack |-> <<>>, pc |-> "UB", ret |-> Null, err |-> NoError]

\* A scalar routine's outcome r handed on: signed overflow in it leaves the
\* wrapped result or anything else.
Scalar(r, stk) ==
  IF ~r.ok THEN {Throw(r)}
  ELSE IF r.ub THEN {Return(r.val, r.pos, stk), Undefined(r.pos)}
  ELSE {Return(r.val, r.pos, stk)}

-----------------------------------------------------------------------------
(* The text reader: JsonReader::Parse, ParseArray, ParseObject.            *)

JsonReaderParse(s, p, stk) ==
  LET q == SkipSpaces(s, p)
      c == PeekNextChar(s, q)
  IN CASE c = EndOfInput -> {Return(Null, q, stk)}
       [] c = Ord("{") -> {Goto("ParseObject", q, stk)}
       [] c = Ord("[") -> {Goto("ParseArray", q, stk)}
       [] c = Ord("-") \/ IsDigit(c) \/ c = Ord("N") \/ c = Ord("I") ->
            Scalar(ParseNumber(s, q), stk)
       [] c = Ord("\"") -> Scalar(ParseString(s, q), stk)
       [] c = Ord("t") \/ c = Ord("f") -> Scalar(ParseBoolean(s, q), stk)
       [] c = Ord("n") -> Scalar(ParseNull(s, q), stk)
       [] OTHER -> {Throw(Error("Unknown construct", q))}

\* ParseArray up to its loop.
JsonReaderParseArray(s, p, stk) ==
  LET q == GetConsecutiveChar(s, p, Ord("["))
  IN IF ~q.ok THEN {Throw(q)}
     ELSE {Goto("ArrayLoop", q.pos, Append(stk, [resume |-> "ArrayElem", data |-> <<>>]))}

\* The head of ParseArray's loop, up to the call of Parse().
JsonReaderArrayLoop(s, p, stk) ==
  IF PeekNextChar(s, p) = Ord("]")
  THEN {Return(Array(Top(stk).data), GetConsecutiveChar(s, p, Ord("]")).pos, Pop(stk))}
  ELSE {Goto("Parse", p, stk)}

\* A loop tail that takes any character but the closing one for a comma.
AnySeparator(s, p, stk, obj) ==
  LET data == EmplaceBack(Top(stk).data, obj)
      g    == GetNextNonSpaceChar(s, p)
  IN IF g.ch = Ord("]") THEN {Return(Array(data), g.pos, Pop(stk))}
     ELSE {Goto("ArrayLoop", g.pos, ReplaceTop(stk, [Top(stk) EXCEPT !.data = data]))}

\* ParseArray's loop after Parse() returned obj.
JsonReaderArrayElem(s, p, stk, obj) ==
  LET data == EmplaceBack(Top(stk).data, obj)
      g    == GetNextNonSpaceChar(s, p)
  IN IF g.ch = Ord("]") THEN {Return(Array(data), g.pos, Pop(stk))}
     ELSE IF g.ch # Ord(",") THEN {Throw(Expect(Ord(","), g.ch, g.pos))}
     ELSE {Goto("ArrayLoop", g.pos, ReplaceTop(stk, [Top(stk) EXCEPT !.data = data]))}

\* ParseObject up to its loop.
JsonReaderParseObject(s, p, stk) ==
  LET q == GetConsecutiveChar(s, p, Ord("{"))
  IN IF ~q.ok THEN {Throw(q)}
     ELSE LET p1 == SkipSpaces(s, q.pos)
          IN IF PeekNextChar(s, p1) = Ord("}")
             THEN {Return(Object(<<>>), GetConsecutiveChar(s, p1, Ord("}")).pos, stk)}
             ELSE {Goto("ObjectLoop", p1,
                        Append(stk, [resume |-> "ObjectElem", data |-> <<>>, key |-> <<>>]))}

\* The head of ParseObject's loop: the key and the colon, up to the call of Parse().
JsonReaderObjectLoop(s, p, stk) ==
  LET p1 == SkipSpaces(s, p)
      ch == PeekNextChar(s, p1)
  IN IF ch = EndOfInput THEN {Throw(Error("Check failed: ch != -1", p1))}
     ELSE IF ch # Ord("\"") THEN {Throw(Expect(Ord("\""), ch, p1))}
     ELSE LET key == ParseString(s, p1)
          IN IF ~key.ok THEN {Throw(key)}
             ELSE LET g == GetNextNonSpaceChar(s, key.pos)
                  IN IF g.ch # Ord(":") THEN {Throw(Expect(Ord(":"), g.ch, g.pos))}
                     ELSE {Goto("Parse", g.pos,
                                ReplaceTop(stk, [Top(stk) EXCEPT !.key = key.val.str_]))}

\* ParseObject's loop after Parse() returned value.
JsonReaderObjectElem(s, p, stk, value) ==
  LET data == MapAssign(Top(stk).data, Top(stk).key, value)
      g    == GetNextNonSpaceChar(s, p)
  IN IF g.ch = Ord("}") THEN {Return(Object(data), g.pos, Pop(stk))}
     ELSE IF g.ch # Ord(",") THEN {Throw(Expect(Ord(","), g.ch, g.pos))}
     ELSE {Goto("ObjectLoop", g.pos, ReplaceTop(stk, [Top(stk) EXCEPT !.data = data]))}

-----------------------------------------------------------------------------
(* The binary reader: UBJReader::Parse, ParseArray, ParseObject, DecodeStr. *)

\* Whether n bytes from offset p lie inside the buffer.
InBuffer(s, p, n) == p + n <= Len(s)

\* ReadPrimitive<T> for a T of n bytes, inside the buffer: the bytes at the cursor.
ReadPrimitive(s, p, n) == ToBigEndian(MemoryImage(SubSeq(s, p + 1, p + n)))

\* The value of a non-negative int64 known to be at most cap.
RECURSIVE NatOfBytes(_)
NatOfBytes(bs) ==
  IF Len(bs) = 0 THEN 0 ELSE NatOfBytes(SubSeq(bs, 1, Len(bs) - 1)) * 256 + bs[Len(bs)]

\* Whether the int64 n lies in 0..cap.
AtMost(n, cap) == ~IsNegative(n) /\ ~SLess(IntBytes(cap, 8), n)

\* DecodeStr: [ok, val, pos] with the string, a failure, or ub for a read
\* outside the buffer.
DecodeStr(s, p) ==
  LET q == GetConsecutiveChar(s, p, Ord("L"))
  IN IF ~q.ok THEN q
     ELSE IF ~InBuffer(s, q.pos, 8) THEN [Ok(Null, q.pos) EXCEPT !.ub = TRUE]
     ELSE LET bsize == ReadPrimitive(s, q.pos, 8)
              p1    == q.pos + 8
          IN IF IsNegative(bsize) THEN Error("std::length_error", p1)
             ELSE IF ~AtMost(bsize, Len(s) - p1) THEN [Ok(Null, p1) EXCEPT !.ub = TRUE]
             ELSE LET n == NatOfBytes(bsize)
                  IN Ok(String(SubSeq(s, p1 + 1, p1 + n)), p1 + n)

\* The element type a typed array's type code names: [kind, known].
TypedArrayOf(type) ==
  CASE type = Ord("d") -> "F32Array"
    [] type = Ord("D") -> "F64Array"
    [] type = Ord("i") -> "I8Array"
    [] type = Ord("U") -> "U8Array"
    [] type = Ord("I") -> "I16Array"
    [] type = Ord("l") -> "I32Array"
    [] type = Ord("L") -> "I64Array"
    [] OTHER -> ""

\* ParseTypedArray<T>(n), every element inside the buffer: n elements read in turn.
ParseTypedArray(s, p, k, n) ==
  LET size == ElemSize(k)
      elem(j) == ReadPrimitive(s, p + (j - 1) * size, size)
  IN TypedArray(k, [j \in 1..n |->
                      IF k \in {"F32Array", "F64Array"} THEN BytesFloat(elem(j))
                      ELSE elem(j)])

SignedInteger(bs) == Integer(SignExtend(bs, 8))
UnsignedInteger(bs) == Integer(ZeroExtend(bs, 8))
FloatNumber(bs) == Number(BytesFloat(bs))

\* A fixed-width scalar after its marker: the n bytes read, converted as the
\* marker's case converts them, become the value.
UBJScalar(s, p, n, stk, conv) ==
  IF ~InBuffer(s, p, n) THEN {Undefined(p)}
  ELSE LET bs == ReadPrimitive(s, p, n)
       IN {Return(CASE conv = "float" -> FloatNumber(bs)
                    [] conv = "unsigned" -> UnsignedInteger(bs)
                    [] OTHER -> SignedInteger(bs),
                  p + n, stk)}

UBJReaderParse(s, p, stk) ==
  LET c == PeekNextChar(s, p)
      q == GetNextChar(s, p).pos
  IN CASE c = EndOfInput -> {Return(Null, p, stk)}
       [] c = Ord("{") -> {Goto("UBJParseObject", q, stk)}
       [] c = Ord("[") -> {Goto("UBJParseArray", q, stk)}
       [] c = Ord("Z") -> {Return(Null, q, stk)}
       [] c = Ord("T") -> {Return(Boolean(TRUE), q, stk)}
       [] c = Ord("F") -> {Return(Boolean(FALSE), q, stk)}
       [] c = Ord("d") -> UBJScalar(s, q, 4, stk, "float")
       [] c = Ord("D") -> UBJScalar(s, q, 8, stk, "float")
       [] c = Ord("S") ->
            LET r == DecodeStr(s, q)
            IN IF ~r.ok THEN {Throw(r)}
               ELSE IF r.ub THEN {Undefined(r.pos)}
               ELSE {Return(r.val, r.pos, stk)}
       [] c = Ord("i") -> UBJScalar(s, q, 1, stk, "signed")
       [] c = Ord("U") -> UBJScalar(s, q, 1, stk, "unsigned")
       [] c = Ord("I") -> UBJScalar(s, q, 2, stk, "signed")
       [] c = Ord("l") -> UBJScalar(s, q, 4, stk, "signed")
       [] c = Ord("L") -> UBJScalar(s, q, 8, stk, "signed")
       [] c = Ord("C") -> UBJScalar(s, q, 1, stk, "signed")
       [] c = Ord("H") ->
            {Throw(Error("High precision number is not supported.", q))}
       [] OTHER -> {Throw(Error("Unknown construct", q))}

\* ParseArray up to its loop; a typed array is read whole.
UBJReaderParseArray(s, p, stk) ==
  LET marker == PeekNextChar(s, p)
  IN IF marker = Ord("$")
     THEN LET t == GetNextChar(s, p + 1)
              q == GetConsecutiveChars(s, t.pos, <<Ord("#"), Ord("L")>>)
          IN IF ~q.ok THEN {Throw(q)}
             ELSE IF ~InBuffer(s, q.pos, 8) THEN {Undefined(q.pos)}
             ELSE LET n  == ReadPrimitive(s, q.pos, 8)
                      p1 == q.pos + 8
                      k  == TypedArrayOf(t.ch)
                  IN IF k = ""
                     THEN {Throw(Error("is not supported for typed array.", p1))}
                     ELSE IF IsNegative(n) THEN {Throw(Error("std::length_error", p1))}
                     ELSE IF ~AtMost(n, (Len(s) - p1) \div ElemSize(k))
                     THEN {Undefined(p1)}
                     ELSE {Return(ParseTypedArray(s, p1, k, NatOfBytes(n)),
                                  p1 + NatOfBytes(n) * ElemSize(k), stk)}
     ELSE IF marker = Ord("#")
     THEN LET q == GetConsecutiveChar(s, p + 1, Ord("L"))
          IN IF ~q.ok THEN {Throw(q)}
             ELSE IF ~InBuffer(s, q.pos, 8) THEN {Undefined(q.pos)}
             ELSE LET n == ReadPrimitive(s, q.pos, 8)
                  IN IF IsNegative(n) THEN {Throw(Error("std::length_error", q.pos + 8))}
                     ELSE {Goto("UBJArrayLoop", q.pos + 8,
                                Append(stk, [resume |-> "UBJArrayElem", data |-> <<>>,
                                             counted |-> TRUE, n |-> n, i |-> 0]))}
     ELSE {Goto("UBJArrayLoop", p,
                Append(stk, [resume |-> "UBJArrayElem", data |-> <<>>,
                             counted |-> FALSE, n |-> Bytes(8), i |-> 0]))}

\* The loop test of ParseArray, up to the call of Parse() or the return.
UBJReaderArrayLoop(s, p, stk) ==
  LET f == Top(stk)
  IN IF f.counted
     THEN IF SLess(IntBytes(f.i, 8), f.n) THEN {Goto("UBJParse", p, stk)}
          ELSE {Return(Array(f.data), p, Pop(stk))}
     ELSE IF PeekNextChar(s, p) # Ord("]") THEN {Goto("UBJParse", p, stk)}
          ELSE LET q == GetConsecutiveChar(s, p, Ord("]"))
               IN {Return(Array(f.data), q.pos, Pop(stk))}

\* ParseArray's loop after Parse() returned v: the element is stored.
UBJReaderArrayElem(s, p, stk, v) ==
  LET f == Top(stk)
  IN {Goto("UBJArrayLoop", p,
           ReplaceTop(stk, [f EXCEPT !.data = EmplaceBack(f.data, v),
                                     !.i = IF f.counted THEN f.i + 1 ELSE f.i]))}

\* ParseObject up to its loop.
UBJReaderParseObject(s, p, stk) ==
  {Goto("UBJObjectLoop", p,
        Append(stk, [resume |-> "UBJObjectElem", data |-> <<>>, key |-> <<>>]))}

\* The loop test of ParseObject: the key, up to the call of Parse(), or the return.
UBJReaderObjectLoop(s, p, stk) ==
  IF PeekNextChar(s, p) # Ord("}")
  THEN LET r == DecodeStr(s, p)
       IN IF ~r.ok THEN {Throw(r)}
          ELSE IF r.ub THEN {Undefined(r.pos)}
          ELSE {Goto("UBJParse", r.pos,
                     ReplaceTop(stk, [Top(stk) EXCEPT !.key = r.val.str_]))}
  ELSE LET q == GetConsecutiveChar(s, p, Ord("}"))
       IN {Return(Object(Top(stk).data), q.pos, Pop(stk))}

\* ParseObject's loop after Parse() returned v: results.emplace(str, v).
UBJReaderObjectElem(s, p, stk, v) ==
  LET f == Top(stk)
  IN {Goto("UBJObjectLoop", p,
           ReplaceTop(stk, [f EXCEPT !.data = MapEmplace(f.data, f.key, v)]))}

-----------------------------------------------------------------------------
(* The documents that are dumped and the buffers that are loaded.          *)

\* The longest buffer drawn letter by letter from an alphabet.
MaxLen == 3

Int64Min == <<128>> \o Bytes(7)
Int64Max == <<127>> \o [k \in 1..7 |-> 255]
ThreeBillion == FromDigits(<<3, 0, 0, 0, 0, 0, 0, 0, 0, 0>>)

Int32Max == IntBytes(2147483647, 8)
Int32Min == Negate(Increment(Int32Max))

IntegerSamples ==
  {IntBytes(v, 8) : v \in {0, 1, 0 - 1, 127, 128, 0 - 128, 0 - 129, 200, 32767, 40000,
                           126, 0 - 127, 32768, 0 - 32768, 0 - 32769}}
    \cup {ThreeBillion, Int64Min, Int64Max, Int32Max, Int32Min, Increment(Int32Max)}

NumberSamples == FloatSamples \cup {NaN, Inf(FALSE), Inf(TRUE)}

StringSamples ==
  {<<>>, Str(<<"a">>), Str(<<"a", "\n", "\t">>), Str(<<"\"", "\\">>),
   Str(<<"\\", "u">>), Str(<<"SOH">>), <<255>>}

ScalarDocs ==
  {Null, Boolean(TRUE), Boolean(FALSE)}
    \cup {Integer(i) : i \in IntegerSamples}
    \cup {Number(f) : f \in NumberSamples}
    \cup {String(str) : str \in StringSamples}

\* The elements a typed array of kind k is filled with.
ElementSamples(k) ==
  IF k \in {"F32Array", "F64Array"} THEN {One(TRUE), TwoAndHalf, NaN, Inf(TRUE)}
  ELSE LET n == ElemSize(k)
       IN {Bytes(n), IntBytes(1, n), [j \in 1..n |-> 255], <<128>> \o Bytes(n - 1)}

TypedArrayDocs ==
  UNION {{TypedArray(k, <<>>)}
           \cup {TypedArray(k, <<e>>) : e \in ElementSamples(k)}
           \cup {TypedArray(k, <<e, IF k \in {"F32Array", "F64Array"}
                                    THEN Half ELSE Bytes(ElemSize(k))>>) :
                   e \in ElementSamples(k)} :
         k \in TypedArrayKinds}

\* Arrays and Objects over the documents of S.
Containers(S) ==
  {Array(<<>>), Object(<<>>)}
    \cup {Array(<<x>>) : x \in S}
    \cup {Array(<<x, Null, x>>) : x \in S}
    \cup {Object(<<<<Str(<<"a">>), x>>>>) : x \in S}
    \cup {Object(<<<<Str(<<"a">>), x>>, <<Str(<<"b", "\n">>), Boolean(TRUE)>>>>) : x \in S}

PlainDocs ==
  ScalarDocs \cup Containers(ScalarDocs)
    \cup {Array(<<Array(<<>>), Integer(IntBytes(1, 8)), Array(<<Null>>), String(Str(<<"a">>))>>)}
    \cup {Array(<<c>>) : c \in Containers({Integer(Int64Max), String(Str(<<"a">>))})}

Docs ==
  PlainDocs \cup TypedArrayDocs
    \cup {Array(<<t, t>>) : t \in TypedArrayDocs}
    \cup {Object(<<<<Str(<<"a">>), t>>>>) : t \in TypedArrayDocs}

\* Whether a document has a typed array of double anywhere in it.
RECURSIVE HasF64Array(_)
HasF64Array(v) ==
  CASE v.kind = "F64Array" -> TRUE
    [] v.kind = "Array" -> \E j \in 1..Len(v.vec_) : HasF64Array(v.vec_[j])
    [] v.kind = "Object" -> \E j \in 1..Len(v.object_) : HasF64Array(v.object_[j][2])
    [] OTHER -> FALSE

\* The documents dumped as text: those the text writer of json.cc visits.
TextDocs == {d \in Docs : ~HasF64Array(d)}

\* All byte strings of at most n letters of an alphabet.
RECURSIVE Words(_, _)
Words(alphabet, n) ==
  IF n = 0 THEN {<<>>}
  ELSE LET shorter == Words(alphabet, n - 1)
       IN shorter \cup {Append(w, c) : w \in shorter, c \in alphabet}

TextAlphabet == {Ord(c) : c \in {"[", "]", "{", "}", ",", "1", "-", " "}}

TextCorpus ==
  {Str(<<"{", "\"", "a", "\"", ":", " ", "}">>),
   Str(<<"{", "\"", "a", "\"", ":", "1", ",", "\"", "a", "\"", ":", "2", "}">>),
   Str(<<"{", "\"", "a", "\"", ":", "1", ",", "}">>),
   Str(<<"{", "\"", "a", "\"", ":", "[", "t", "r", "u", "e", ",", "n", "u", "l", "l", "]", "}">>),
   Str(<<"{", "\"", "a", "\"", " ", "1", "}">>),
   Str(<<"[", "1", ",", " ", "+", "1", "]">>),
   Str(<<"+", "1">>),
   Str(<<" ", "[", "1", ".", "5", "e", "1", ",", "\n", "x", "]">>),
   Str(<<"[", "\"", "a", "\\", "n", "\"", ",", "f", "a", "l", "s", "e", "]">>),
   Str(<<"\"", "a">>),
   Str(<<"\"", "\\", "x", "\"">>),
   Str(<<"\"", "\\", "r", "\\", "n", "\\", "\\", "\\", "t", "\\", "\"", "\\", "u", "\"", "1">>),
   Str(<<"\"", "a", "\n", "\"">>),
   Str(<<"\"", "a", "\r", "\"">>),
   Str(<<"\"", "\\">>),
   <<Ord("\""), 255, Ord("\"")>>,
   Str(<<"t", "r", "u">>),
   Str(<<"n", "u", "l", "x">>),
   Str(<<"1", "e">>),
   Str(<<"0", "1">>),
   Str(<<"1", " ", "x">>),
   Str(<<"N", "a", "N">>),
   Str(<<"-", "I", "n", "f", "i", "n", "i", "t", "y">>),
   Str(<<"[", "1", ",", "2", ",", "3", ",", "4", "]">>),
   Str(<<"[", "1", ",", "]">>),
   Str(<<"[", "1", " ", "]">>),
   Str(<<" ", "\t", "\r", "\n">>),
   Str(<<"[", " ", "1", "]">>),
   Str(<<"[", "1", ",", "1", ",", "1", ",", "1", ",", "1", "x", "1", ",", "1", ",", "1", ",", "1", ",", "1", "]">>),
   Str(<<"x">>),
   Str(<<"{", "1">>),
   Str(<<"[", " ", "]">>),
   Str(<<"{", " ", "}">>),
   Str(<<" ", "[", "\t", "1", "\r", ",", "\n", "1", " ", "]", " ">>),
   Str(<<" ", "{", "\t", "\"", "a", "\"", "\r", ":", "\n", "1", " ", "}", " ">>),
   Str(<<"{", "\"", "a", "\"", ":", "1", "]">>),
   Str(<<"{", "\"", "a", "\"", ":", "1">>),
   Str(<<"{", "\"", "a", "\"", ":", "1", " ", "\"", "b", "\"", ":", "1", "}">>),
   <<Ord("["), 200, Ord("]")>>}

TextInputs == Words(TextAlphabet, MaxLen) \cup TextCorpus

BinaryAlphabet == {Ord(c) : c \in {"[", "]", "{", "}", "Z", "i", "#", "x"}}

\* 'L' and an int64 count.
Count(n) == <<Ord("L")>> \o IntBytes(n, 8)

\* A key of an object: its length and its bytes.
Key(cs) == Count(Len(cs)) \o Str(cs)

\* An empty counted array inside an array with a terminator, and the same
\* with a closing bracket of its own.
NestedCounted == <<Ord("["), Ord("["), Ord("#")>> \o Count(0) \o <<Ord("]")>>
NestedClosed == <<Ord("["), Ord("["), Ord("#")>> \o Count(0) \o <<Ord("]"), Ord("]")>>

\* A counted array of two elements with one element in the buffer, and an
\* Object whose key announces five bytes with one in the buffer.
ShortCounted == <<Ord("["), Ord("#")>> \o Count(2) \o <<Ord("Z")>>
ShortKey == <<Ord("{")>> \o Count(5) \o Str(<<"a">>)

BinaryCorpus ==
  {NestedCounted, NestedClosed, ShortCounted, ShortKey,
   <<Ord("{")>> \o Key(<<"a">>) \o <<Ord("i"), 1>> \o Key(<<"a">>) \o <<Ord("i"), 2>>
      \o <<Ord("}")>>,
   <<Ord("{")>> \o Key(<<"b">>) \o <<Ord("T")>> \o Key(<<"a">>) \o <<Ord("F")>>
      \o <<Ord("}")>>,
   <<Ord("{")>> \o Key(<<"a">>),
   <<Ord("{"), Ord("L"), 0, 0>>,
   <<Ord("{")>> \o Count(5) \o Str(<<"a">>),
   <<Ord("{")>> \o Count(0 - 1),
   <<Ord("["), Ord("#")>> \o Count(2) \o <<Ord("Z"), Ord("T")>>,
   <<Ord("["), Ord("#")>> \o Count(2) \o <<Ord("Z"), Ord("T"), Ord("]")>>,
   <<Ord("["), Ord("#")>> \o Count(1),
   <<Ord("["), Ord("#")>> \o Count(0 - 1),
   <<Ord("["), Ord("$"), Ord("U"), Ord("#")>> \o Count(2) \o <<1, 255>>,
   <<Ord("["), Ord("$"), Ord("U"), Ord("#")>> \o Count(2) \o <<1>>,
   <<Ord("["), Ord("$"), Ord("d"), Ord("#")>> \o Count(1) \o <<63, 128, 0, 0>>,
   <<Ord("["), Ord("$"), Ord("Z"), Ord("#")>> \o Count(0),
   <<Ord("["), Ord("$"), Ord("i"), Ord("#")>> \o Count(0 - 1),
   <<Ord("["), Ord("$"), Ord("i")>>,
   <<Ord("["), Ord("i"), 1, Ord("["), Ord("F"), Ord("]"), Ord("]")>>,
   <<Ord("["), Ord("i"), 1, Ord("[")>>,
   <<Ord("S")>> \o Key(<<"a", "b">>),
   <<Ord("S"), Ord("i"), 1, Ord("a")>>,
   <<Ord("H"), Ord("i"), 1, Ord("1")>>,
   <<Ord("C"), Ord("a")>>,
   <<Ord("U"), 200>>,
   <<Ord("I"), 255, 0>>,
   <<Ord("l"), 0, 0, 1>>,
   <<Ord("d"), 64, 32, 0, 0>>,
   <<Ord("D"), 127, 240, 0, 0, 0, 0, 0, 0>>,
   <<Ord("L"), 128, 0, 0, 0, 0, 0, 0, 0>>,
   <<255>>,
   <<200>>,
   <<Ord("["), Ord("T"), Ord("N"), Ord("]")>>,
   <<Ord("["), Ord("#")>> \o Count(1) \o <<255>>,
   <<Ord("["), Ord("$"), Ord("x"), Ord("#")>> \o Count(1) \o <<1>>,
   <<Ord("["), Ord("$"), Ord("x"), Ord("#"), Ord("L"), 0>>}

BinaryInputs == Words(BinaryAlphabet, MaxLen) \cup BinaryCorpus

-----------------------------------------------------------------------------
(* Json::Dump and Json::Load as a state machine.  doc is the document that *)
(* is dumped (when aux.dumped), raw_str_ the buffer, cursor_ the reader's  *)
(* position, stack the activations of ParseArray and ParseObject, ret the  *)
(* value the last return handed back, err the failure raised.              *)

Terminal == {"Done", "Error", "UB"}

InitDump ==
  /\ aux \in [binary : BOOLEAN, dumped : {TRUE}]
  /\ doc \in (IF aux.binary THEN Docs ELSE TextDocs)
  /\ raw_str_ = <<>>
  /\ pc = "Dump"

InitLoad ==
  /\ aux \in [binary : BOOLEAN, dumped : {FALSE}]
  /\ doc = Null
  /\ raw_str_ \in (IF aux.binary THEN BinaryInputs ELSE TextInputs)
  /\ pc = "Load"

Init ==
  /\ cursor_ = 0
  /\ stack = <<>>
  /\ ret = Null
  /\ err = NoError
  /\ (InitDump \/ InitLoad)

\* The reader moves to the outcome n of one of its routines.
Apply(n) ==
  /\ cursor_' = n.pos
  /\ stack' = n.stack
  /\ pc' = n.pc
  /\ ret' = n.ret
  /\ err' = n.err
  /\ UNCHANGED <<raw_str_, doc, aux>>

\* Json::Dump(doc, &raw_str_, mode): the buffer is cleared and the writer of the
\* mode writes the document into it.
Dump ==
  /\ pc = "Dump"
  /\ raw_str_' = Clear(raw_str_) \o JsonDump(doc, aux.binary)
  /\ pc' = "Load"
  /\ UNCHANGED <<cursor_, stack, ret, err, doc, aux>>

\* Json::Load(raw_str_, mode): a reader of the mode is built over the buffer.
Load ==
  /\ pc = "Load"
  /\ pc' = IF aux.binary THEN "UBJParse" ELSE "Parse"
  /\ cursor_' = 0
  /\ UNCHANGED <<raw_str_, stack, ret, err, doc, aux>>

Parse ==
  /\ pc = "Parse"
  /\ \E n \in JsonReaderParse(raw_str_, cursor_, stack) : Apply(n)

ParseArray ==
  /\ pc = "ParseArray"
  /\ \E n \in JsonReaderParseArray(raw_str_, cursor_, stack) : Apply(n)

ArrayLoop ==
  /\ pc = "ArrayLoop"
  /\ \E n \in JsonReaderArrayLoop(raw_str_, cursor_, stack) : Apply(n)

ArrayElem ==
  /\ pc = "ArrayElem"
  /\ \E n \in JsonReaderArrayElem(raw_str_, cursor_, stack, ret) : Apply(n)

ParseObject ==
  /\ pc = "ParseObject"
  /\ \E n \in JsonReaderParseObject(raw_str_, cursor_, stack) : Apply(n)

ObjectLoop ==
  /\ pc = "ObjectLoop"
  /\ \E n \in JsonReaderObjectLoop(raw_str_, cursor_, stack) : Apply(n)

ObjectElem ==
  /\ pc = "ObjectElem"
  /\ \E n \in JsonReaderObjectElem(raw_str_, cursor_, stack, ret) : Apply(n)

UBJParse ==
  /\ pc = "UBJParse"
  /\ \E n \in UBJReaderParse(raw_str_, cursor_, stack) : Apply(n)

UBJParseArray ==
  /\ pc = "UBJParseArray"
  /\ \E n \in UBJReaderParseArray(raw_str_, cursor_, stack) : Apply(n)

UBJArrayLoop ==
  /\ pc = "UBJArrayLoop"
  /\ \E n \in UBJReaderArrayLoop(raw_str_, cursor_, stack) : Apply(n)

UBJArrayElem ==
  /\ pc = "UBJArrayElem"
  /\ \E n \in UBJReaderArrayElem(raw_str_, cursor_, stack, ret) : Apply(n)

UBJParseObject ==
  /\ pc = "UBJParseObject"
  /\ \E n \in UBJReaderParseObject(raw_str_, cursor_, stack) : Apply(n)

UBJObjectLoop ==
  /\ pc = "UBJObjectLoop"
  /\ \E n \in UBJReaderObjectLoop(raw_str_, cursor_, stack) : Apply(n)

UBJObjectElem ==
  /\ pc = "UBJObjectElem"
  /\ \E n \in UBJReaderObjectElem(raw_str_, cursor_, stack, ret) : Apply(n)

Next ==
  \/ Dump \/ Load
  \/ Parse \/ ParseArray \/ ArrayLoop \/ ArrayElem
  \/ ParseObject \/ ObjectLoop \/ ObjectElem
  \/ UBJParse \/ UBJParseArray \/ UBJArrayLoop \/ UBJArrayElem
  \/ UBJParseObject \/ UBJObjectLoop \/ UBJObjectElem

Spec == Init /\ [][Next]_vars

\* The positions of control in Dump, Load and the readers' routines.
Positions ==
  {"Dump", "Load", "Parse", "ParseArray", "ArrayLoop", "ArrayElem",
   "ParseObject", "ObjectLoop", "ObjectElem", "UBJParse", "UBJParseArray",
   "UBJArrayLoop", "UBJArrayElem", "UBJParseObject", "UBJObjectLoop",
   "UBJObjectElem"}

\* Control leaves a position of a call that has neither returned nor failed.
ControlMoves == pc \notin Terminal /\ pc' \in Positions \cup Terminal

\* The program is sequential and nothing suspends it: as long as the call has
\* neither returned nor failed, control moves on.
FairSpec == Spec /\ WF_pc(ControlMoves)

TypeOK ==
  /\ cursor_ \in 0..Len(raw_str_)
  /\ pc \in Positions \cup Terminal
  /\ aux.binary \in BOOLEAN

-----------------------------------------------------------------------------
(* Value::operator== applied to two documents: doc is the left operand,    *)
(* ret the right operand, aux.equal the result, aux.raised whether the     *)
(* comparison ended in LOG(FATAL) instead of a result.                     *)

EqualDocs ==
  ScalarDocs
    \cup {Array(<<>>), Object(<<>>),
          Array(<<Integer(IntBytes(1, 8))>>), Array(<<Number(One(FALSE))>>),
          Array(<<Integer(IntBytes(1, 8)), Null>>),
          Array(<<Integer(IntBytes(1, 8)), Array(<<>>)>>),
          Object(<< <<Str(<<"a">>), Integer(IntBytes(1, 8))>> >>),
          Object(<< <<Str(<<"a">>), Number(One(FALSE))>> >>),
          TypedArray("I64Array", <<IntBytes(1, 8)>>),
          TypedArray("I32Array", <<IntBytes(1, 4)>>),
          TypedArray("U8Array", <<>>),
          TypedArray("F32Array", <<One(FALSE)>>),
          TypedArray("F64Array", <<One(FALSE)>>),
          TypedArray("F32Array", <<NaN>>),
          TypedArray("F64Array", <<NaN>>),
          TypedArray("F32Array", <<Inf(FALSE)>>),
          TypedArray("F32Array", <<Inf(TRUE)>>),
          TypedArray("F64Array", <<Inf(FALSE)>>)}

EqualInit ==
  /\ raw_str_ = <<>>
  /\ cursor_ = 0
  /\ stack = <<>>
  /\ err = NoError
  /\ doc \in EqualDocs
  /\ ret \in EqualDocs
  /\ aux = [equal |-> FALSE, raised |-> FALSE]
  /\ pc = "Compare"

\* lhs == rhs is evaluated.
Compare ==
  /\ pc = "Compare"
  /\ aux' = [equal  |-> IF Raises(doc, ret) THEN FALSE ELSE Equal(doc, ret),
             raised |-> Raises(doc, ret)]
  /\ pc' = "Compared"
  /\ UNCHANGED <<raw_str_, cursor_, stack, ret, err, doc>>

EqualNext == Compare

EqualSpec == EqualInit /\ [][EqualNext]_vars

-----------------------------------------------------------------------------
(* Shared ownership.  A Json is a handle to a node: aux.heap holds the     *)
(* nodes, a handle is the index of its node, and an Array node holds the   *)
(* handles of its elements.  aux.embedded[j] is the handle that the caller *)
(* embedded at position j of the outer array, aux.through the position the *)
(* last mutation went through.                                             *)

\* The most columns embedded in the outer array, and the most elements
\* appended to one column.
MaxColumns == 3
MaxRows == 2

ArrayNode(handles) == [kind |-> "Array", vec_ |-> handles]
IntegerNode(v) == [kind |-> "Integer", integer_ |-> v]

\* A copy of the handle h together with a copy of its node.
CloneNode(hp, h) == [heap |-> Append(hp, hp[h]), handle |-> Len(hp) + 1]

\* Json's copy constructor: the handle is copied, the node is not.
CopyHandle(hp, h) == [heap |-> hp, handle |-> h]

\* get<Array>(parent).emplace_back(child): the Array node of parent gets a copy
\* of the handle child as its last element.
ArrayEmplaceBack(hp, parent, child) ==
  LET c == CopyHandle(hp, child)
  IN [c.heap EXCEPT ![parent].vec_ = Append(@, c.handle)]

\* The document a handle stands for.
RECURSIVE Deref(_, _)
Deref(hp, h) ==
  IF hp[h].kind = "Array"
  THEN Array([j \in 1..Len(hp[h].vec_) |-> Deref(hp, hp[h].vec_[j])])
  ELSE Integer(IntBytes(hp[h].integer_, 8))

\* The handles of the outer array arr and of the two columns the caller holds.
ArrHandle == 1
ColumnHandles == {2, 3}

\* The handle at position j of the outer array.
At(hp, j) == hp[ArrHandle].vec_[j]

HeapInit ==
  /\ raw_str_ = <<>>
  /\ cursor_ = 0
  /\ stack = <<>>
  /\ ret = Null
  /\ err = NoError
  /\ doc = Null
  /\ aux = [heap |-> <<ArrayNode(<<>>), ArrayNode(<<>>), ArrayNode(<<>>)>>,
            embedded |-> <<>>, through |-> 0]
  /\ pc = "Built"

\* get<Array>(arr).emplace_back(column) for a column the caller holds.
Embed ==
  /\ Len(aux.heap[ArrHandle].vec_) < MaxColumns
  /\ \E column \in ColumnHandles :
       aux' = [heap |-> ArrayEmplaceBack(aux.heap, ArrHandle, column),
               embedded |-> Append(aux.embedded, column),
               through |-> 0]
  /\ pc' = "Embedded"
  /\ UNCHANGED <<raw_str_, cursor_, stack, ret, err, doc>>

\* get<Array>(get<Array>(arr)[i]).emplace_back(Json{v}): the payload of the
\* sub-document at position i is mutated in place.
Mutate ==
  /\ \E i \in 1..Len(aux.heap[ArrHandle].vec_), v \in {0, 1} :
       LET target == At(aux.heap, i)
           hp == Append(aux.heap, IntegerNode(v))
       IN /\ Len(aux.heap[target].vec_) < MaxRows
          /\ aux' = [aux EXCEPT !.heap = ArrayEmplaceBack(hp, target, Len(hp)),
                                !.through = i]
  /\ pc' = "Mutated"
  /\ UNCHANGED <<raw_str_, cursor_, stack, ret, err, doc>>

HeapNext == Embed \/ Mutate

HeapSpec == HeapInit /\ [][HeapNext]_vars

-----------------------------------------------------------------------------
(* The claims.                                                             *)

\* A document has been dumped in the given mode and the load of the buffer is over.
RoundTripOver(binary) == aux.dumped /\ aux.binary = binary /\ pc \in Terminal

\* C1: Text round-trip.  For every document d built only from Null, Boolean,
\* Integer, Number, String, Array and Object nodes, loading the text dump of d
\* returns a document structurally equal to d.
C1_TextRoundTrip ==
  (RoundTripOver(FALSE) /\ doc \in PlainDocs) => (pc = "Done" /\ Equal(ret, doc))

\* C2: Binary round-trip.  For every document d of any kind, every typed
\* array kind included, loading the binary dump of d returns a document
\* structurally equal to d.
C2_BinaryRoundTrip == RoundTripOver(TRUE) => (pc = "Done" /\ Equal(ret, doc))

\* Whether the node v holds the same scalar as the element e of a typed array
\* of kind k: a Number equal to e for a float element, an Integer whose value is
\* the value of e for an integer element (an unsigned element has the value of
\* its bytes read as a natural number).
SameScalar(k, e, v) ==
  IF k \in {"F32Array", "F64Array"}
  THEN v.kind = "Number" /\ JsonNumberEq(v.number_, e)
  ELSE /\ v.kind = "Integer"
       /\ IF IsUnsignedKind(k)
          THEN ~IsNegative(v.integer_) /\ v.integer_ = ZeroExtend(e, 8)
          ELSE v.integer_ = SignExtend(e, 8)

\* Whether a is the ordinary Array holding the same scalars as the typed array t.
SameScalars(t, a) ==
  /\ a.kind = "Array"
  /\ Len(a.vec_) = Len(t.vec_)
  /\ \A j \in 1..Len(t.vec_) : SameScalar(t.kind, t.vec_[j], a.vec_[j])

\* C3: Lossy text degrade.  For every typed array t, loading the text dump of t
\* returns the ordinary Array holding the same scalars as t, and that result is
\* not equal to t.
C3_LossyTextDegrade ==
  (RoundTripOver(FALSE) /\ doc \in TypedArrayDocs)
    => (pc = "Done" /\ SameScalars(doc, ret) /\ ~Equal(ret, doc))

\* Whether two floats are the same number: both NaN, or both the infinity of
\* one sign, or both finite with a difference of exactly 0.
SameNumber(a, b) ==
  \/ (a.cls = "nan" /\ b.cls = "nan")
  \/ (a.cls = "inf" /\ b.cls = "inf" /\ a.neg = b.neg)
  \/ (a.cls = "fin" /\ b.cls = "fin" /\ ((a.dig = <<>> /\ b.dig = <<>>) \/ a = b))

\* C4: Equality of two Number nodes.  NaN equals NaN, +Infinity equals
\* +Infinity, +Infinity does not equal -Infinity; in general two Numbers are
\* equal iff both are NaN, or both are infinities of the same sign, or their
\* difference is exactly 0.
C4_NumberEquality ==
  (pc = "Compared" /\ doc.kind = "Number" /\ ret.kind = "Number")
    => (aux.equal <=> SameNumber(doc.number_, ret.number_))

\* A binary dump of the Integer i has been written.
DumpedInteger(i) == aux.dumped /\ aux.binary /\ doc = Integer(i) /\ pc # "Dump"

\* The Integer i was dumped with the marker c and, once the load of the buffer
\* is over, has been read back as the same Integer.
WrittenAs(i, c) ==
  DumpedInteger(i)
    => /\ raw_str_[1] = Ord(c)
       /\ pc \in Terminal => (pc = "Done" /\ ret = Integer(i))

\* C5 (as amended): dumping the Integers 200, 40000 and 3000000000 in binary
\* mode picks the markers `I`, `l` and `L` respectively, and each of them read
\* back by the binary reader yields the same Integer value.
C5_IntegerWidthMarkers ==
  /\ WrittenAs(IntBytes(200, 8), "I")
  /\ WrittenAs(IntBytes(40000, 8), "l")
  /\ WrittenAs(ThreeBillion, "L")

\* C5 (as stated): dumping the Integers 200, 40000 and 3000000000 in binary
\* mode picks the markers `i`, `I` and `L` (or `l`) respectively, and each of
\* them read back yields the same Integer value.
C5_StatedMarkers ==
  /\ WrittenAs(IntBytes(200, 8), "i")
  /\ WrittenAs(IntBytes(40000, 8), "I")
  /\ (WrittenAs(ThreeBillion, "L") \/ WrittenAs(ThreeBillion, "l"))

\* The three Integers have each been dumped and read back: this one the widest.
C5_ReadBack ==
  DumpedInteger(ThreeBillion) /\ pc = "Done" /\ ret = doc /\ Len(raw_str_) = 9

\* {"a":1,"a":2} as text, and the same object in binary.
DuplicateKeyText ==
  Str(<<"{", "\"", "a", "\"", ":", "1", ",", "\"", "a", "\"", ":", "2", "}">>)
DuplicateKeyBinary ==
  <<Ord("{")>> \o Key(<<"a">>) \o <<Ord("i"), 1>> \o Key(<<"a">>) \o <<Ord("i"), 2>>
    \o <<Ord("}")>>

\* Whether no Object anywhere in v holds two entries for one key.
RECURSIVE UniqueKeys(_)
UniqueKeys(v) ==
  CASE v.kind = "Object" ->
         /\ \A j, k \in 1..Len(v.object_) : v.object_[j][1] = v.object_[k][1] => j = k
         /\ \A j \in 1..Len(v.object_) : UniqueKeys(v.object_[j][2])
    [] v.kind = "Array" -> \A j \in 1..Len(v.vec_) : UniqueKeys(v.vec_[j])
    [] OTHER -> TRUE

\* C6: Object key uniqueness with last write wins.  A loaded Object never holds
\* two entries for one key, and a document that repeats a key, in text or in
\* binary, loads to an Object that retains the later value.
C6_LastWriteWins ==
  (pc = "Done" /\ ~aux.dumped)
    => /\ UniqueKeys(ret)
       /\ raw_str_ = (IF aux.binary THEN DuplicateKeyBinary ELSE DuplicateKeyText)
            => ret = Object(<<<<Str(<<"a">>), Integer(IntBytes(2, 8))>>>>)

\* {"a": } as text: a value is expected where the '}' stands.
ObjectWithoutValue == Str(<<"{", "\"", "a", "\"", ":", " ", "}">>)

\* The index of the first character at or after index p that is not a space,
\* the length of the buffer when there is none.
NextNonSpace(s, p) ==
  CHOOSE k \in p..Len(s) :
    /\ k = Len(s) \/ ~IsSpace(AsChar(s[k + 1]))
    /\ \A j \in p..(k - 1) : IsSpace(AsChar(s[j + 1]))

\* Whether a value of the text grammar can start with the character c.
StartsValue(c) ==
  \/ c \in {Ord(x) : x \in {"{", "[", "\"", "-", "t", "f", "n", "N", "I"}}
  \/ (c >= Ord("0") /\ c <= Ord("9"))

\* The text reader expects a value at the cursor and the next non-space
\* character cannot start one.
ValueExpectedNotFound ==
  /\ pc = "Parse"
  /\ NextNonSpace(raw_str_, cursor_) < Len(raw_str_)
  /\ ~StartsValue(AsChar(raw_str_[NextNonSpace(raw_str_, cursor_) + 1]))

\* C7: Error locality.  When a value is expected in a text parse and the next
\* non-space character cannot start a value, the parse fails and the position
\* it reports is the zero-based index of that character: 6, the index of the
\* '}', for {"a": }.
C7_ErrorLocality ==
  [][ValueExpectedNotFound
       => /\ pc' = "Error"
          /\ err'.msg = "Unknown construct"
          /\ err'.pos = NextNonSpace(raw_str_, cursor_)
          /\ raw_str_ = ObjectWithoutValue => err'.pos = 6]_vars

\* The parse of {"a": } has failed at the '}'.
C7_FailedAtBrace ==
  /\ raw_str_ = ObjectWithoutValue
  /\ ~aux.dumped
  /\ pc = "Error"
  /\ err.msg = "Unknown construct"
  /\ raw_str_[err.pos + 1] = Ord("}")

-----------------------------------------------------------------------------
(* The text grammar: standard JSON with the literals NaN, Infinity and     *)
(* -Infinity.  Each recogniser takes the index at which a phrase starts    *)
(* and gives the index after it, or NoMatch.                               *)

NoMatch == 0 - 1

\* The characters cs at index p.
Literal(s, p, cs) ==
  IF p + Len(cs) <= Len(s) /\ SubSeq(s, p + 1, p + Len(cs)) = Str(cs)
  THEN p + Len(cs) ELSE NoMatch

\* The index after the run of digits that starts at p.
RECURSIVE DigitsEnd(_, _)
DigitsEnd(s, p) == IF p < Len(s) /\ IsDigit(s[p + 1]) THEN DigitsEnd(s, p + 1) ELSE p

\* number = [ "-" ] int [ "." digits ] [ ( "e" | "E" ) [ "+" | "-" ] digits ],
\* int = "0" | digit1-9 digits.
NumberEnd(s, p) ==
  LET a == IF p < Len(s) /\ s[p + 1] = Ord("-") THEN p + 1 ELSE p
      b == DigitsEnd(s, a)
      intOk == b > a /\ (s[a + 1] = Ord("0") => b = a + 1)
      c == IF b < Len(s) /\ s[b + 1] = Ord(".") THEN DigitsEnd(s, b + 1) ELSE b
      fracOk == c = b \/ c > b + 1
      e0 == IF c < Len(s) /\ s[c + 1] \in {Ord("e"), Ord("E")} THEN c + 1 ELSE c
      e1 == IF e0 > c /\ e0 < Len(s) /\ s[e0 + 1] \in {Ord("+"), Ord("-")}
            THEN e0 + 1 ELSE e0
      d == IF e0 > c THEN DigitsEnd(s, e1) ELSE c
      expOk == e0 = c \/ d > e1
  IN IF intOk /\ fracOk /\ expOk THEN d ELSE NoMatch

IsHex(c) ==
  \/ IsDigit(c)
  \/ (c >= Ord("a") /\ c <= Ord("f"))
  \/ (c >= Ord("C") - 2 /\ c <= Ord("F"))

\* The characters that may follow a backslash: " \ / b f n r t.
SimpleEscapes == {Ord("\""), Ord("\\"), 47, Ord("b"), Ord("f"), Ord("n"), Ord("r"), Ord("t")}

\* The rest of a string from index p, its opening quote read.
RECURSIVE StringBodyEnd(_, _)
StringBodyEnd(s, p) ==
  IF p >= Len(s) THEN NoMatch
  ELSE LET c == s[p + 1]
       IN IF c = Ord("\"") THEN p + 1
          ELSE IF c = Ord("\\")
          THEN IF p + 1 < Len(s) /\ s[p + 2] \in SimpleEscapes
               THEN StringBodyEnd(s, p + 2)
               ELSE IF /\ p + 6 <= Len(s)
                       /\ s[p + 2] = Ord("u")
                       /\ \A j \in 3..6 : IsHex(s[p + j])
               THEN StringBodyEnd(s, p + 6)
               ELSE NoMatch
          ELSE IF c < 32 THEN NoMatch
          ELSE StringBodyEnd(s, p + 1)

RECURSIVE ValueEnd(_, _)
RECURSIVE ElementsEnd(_, _)
RECURSIVE MembersEnd(_, _)

\* A value at index p.
ValueEnd(s, p) ==
  IF p >= Len(s) THEN NoMatch
  ELSE LET c == s[p + 1]
           q == NextNonSpace(s, p + 1)
       IN CASE c = Ord("[") ->
                 IF q < Len(s) /\ s[q + 1] = Ord("]") THEN q + 1 ELSE ElementsEnd(s, q)
            [] c = Ord("{") ->
                 IF q < Len(s) /\ s[q + 1] = Ord("}") THEN q + 1 ELSE MembersEnd(s, q)
            [] c = Ord("\"") -> StringBodyEnd(s, p + 1)
            [] c = Ord("t") -> Literal(s, p, <<"t", "r", "u", "e">>)
            [] c = Ord("f") -> Literal(s, p, <<"f", "a", "l", "s", "e">>)
            [] c = Ord("n") -> Literal(s, p, <<"n", "u", "l", "l">>)
            [] c = Ord("N") -> Literal(s, p, <<"N", "a", "N">>)
            [] c = Ord("I") -> Literal(s, p, <<"I", "n", "f", "i", "n", "i", "t", "y">>)
            [] c = Ord("-") /\ p + 1 < Len(s) /\ s[p + 2] = Ord("I") ->
                 Literal(s, p + 1, <<"I", "n", "f", "i", "n", "i", "t", "y">>)
            [] c = Ord("-") \/ IsDigit(c) -> NumberEnd(s, p)
            [] OTHER -> NoMatch

\* The elements of an array from the value at index p to its ']'.
ElementsEnd(s, p) ==
  LET v == ValueEnd(s, p)
      q == NextNonSpace(s, v)
  IN IF v = NoMatch \/ q >= Len(s) THEN NoMatch
     ELSE IF s[q + 1] = Ord("]") THEN q + 1
     ELSE IF s[q + 1] = Ord(",") THEN ElementsEnd(s, NextNonSpace(s, q + 1))
     ELSE NoMatch

\* The members of an object from the key at index p to its '}'.
MembersEnd(s, p) ==
  LET k == IF p < Len(s) /\ s[p + 1] = Ord("\"") THEN StringBodyEnd(s, p + 1) ELSE NoMatch
      c == NextNonSpace(s, k)
      v == ValueEnd(s, NextNonSpace(s, c + 1))
      q == NextNonSpace(s, v)
  IN IF k = NoMatch \/ c >= Len(s) THEN NoMatch
     ELSE IF s[c + 1] # Ord(":") THEN NoMatch
     ELSE IF v = NoMatch \/ q >= Len(s) THEN NoMatch
     ELSE IF s[q + 1] = Ord("}") THEN q + 1
     ELSE IF s[q + 1] = Ord(",") THEN MembersEnd(s, NextNonSpace(s, q + 1))
     ELSE NoMatch

\* Whether the whole buffer is one value of the grammar, spaces around it allowed.
InGrammar(s) ==
  LET v == ValueEnd(s, NextNonSpace(s, 0))
  IN v # NoMatch /\ NextNonSpace(s, v) = Len(s)

\* C9: Text parsing is all-or-nothing.  For every input that violates the
\* grammar, input that ends in the middle of a value included, Load fails and
\* returns no document.
C9_AllOrNothing ==
  (~aux.dumped /\ ~aux.binary /\ pc \in Terminal /\ ~InGrammar(raw_str_))
    => (pc = "Error" /\ ret = Null)

\* C10: Parse terminates.  For every finite input buffer, in text mode and in
\* binary mode, Load eventually either returns a document or fails: no input
\* makes a reader loop forever.
C10_ParseTerminates == <>(pc \in Terminal)

\* The sub-document seen through position j of the outer array.
Seen(a, j) == Deref(a.heap, At(a.heap, j))

\* C8: Sharing semantics.  Copying a handle never copies the node: the handle
\* at a position of the outer array is the handle that was embedded there.  When
\* the payload of the sub-document at one position is mutated in place, the
\* change is seen through every position where the same handle was embedded,
\* and the sub-documents at the positions holding other nodes are unchanged.
C8_Sharing ==
  [][/\ \A j \in 1..Len(aux'.embedded) : At(aux'.heap, j) = aux'.embedded[j]
     /\ pc' = "Mutated" =>
          \A j \in 1..Len(aux.embedded) :
            IF aux.embedded[j] = aux.embedded[aux'.through]
            THEN Seen(aux', j) = Seen(aux', aux'.through) /\ Seen(aux', j) # Seen(aux, j)
            ELSE Seen(aux', j) = Seen(aux, j)]_vars

\* One column was embedded at two positions and another column at a third, and
\* the shared column has been mutated through one of its positions.
C8_SharedAndMutated ==
  /\ pc = "Mutated"
  /\ \E i, j, k \in 1..Len(aux.embedded) :
       /\ i # j
       /\ aux.through = i
       /\ aux.embedded[i] = aux.embedded[j]
       /\ aux.embedded[k] # aux.embedded[i]
       /\ Seen(aux, j) = Seen(aux, i)
       /\ Len(Seen(aux, j).vec_) > 0

-----------------------------------------------------------------------------
(* Failures of the binary reader.                                          *)

\* The markers UBJReader::Parse has a case for.
ValueMarkers ==
  {Ord(c) : c \in {"{", "[", "Z", "T", "F", "d", "D", "S", "i", "U", "I", "l", "L",
                   "C", "H"}}

\* The binary reader is about to read a value and the buffer holds a byte there.
AtValuePosition == aux.binary /\ pc = "UBJParse" /\ cursor_ < Len(raw_str_)

\* The byte at the cursor.
ByteAtCursor == raw_str_[cursor_ + 1]

\* ParseArray is at a typed array whose header ($, type code, #, L and the
\* 8-byte count) lies in the buffer and whose type code names no element type.
AtUnsupportedTypedArray ==
  /\ aux.binary
  /\ pc = "UBJParseArray"
  /\ cursor_ + 12 <= Len(raw_str_)
  /\ SubSeq(raw_str_, cursor_ + 1, cursor_ + 4)
       \in {<<Ord("$"), t, Ord("#"), Ord("L")>> :
              t \in (0..255) \ {Ord(c) : c \in {"d", "D", "i", "U", "I", "l", "L"}}}

\* The step abandons the parse: no document is returned.
Fails == pc' = "Error" /\ ret' = Null

\* C11: in binary parsing, a byte at a value position that is not one of the
\* defined markers makes the parse fail with "Unknown construct", the reported
\* position being the cursor just after that byte; the marker H and a typed
\* array with an unsupported type code fail too; no document is returned.
C11_UnknownConstruct ==
  [][/\ (AtValuePosition /\ ByteAtCursor \notin ValueMarkers)
          => /\ Fails
             /\ err'.msg = "Unknown construct"
             /\ err'.pos = cursor_ + 1
             /\ raw_str_[err'.pos] = ByteAtCursor
     /\ (AtValuePosition /\ ByteAtCursor = Ord("H")) => Fails
     /\ AtUnsupportedTypedArray => Fails]_vars

-----------------------------------------------------------------------------
(* Structural equality across kinds.                                       *)

\* C12: structural equality is total.  Comparing two documents of any kinds
\* never raises, and the result is false whenever the two nodes are of
\* different kinds: Integer 1 is not equal to Number 1.0, and an Array is not
\* equal to a typed array holding the same elements.
C12_EqualityTotal ==
  pc = "Compared"
    => /\ ~aux.raised
       /\ aux.equal \in BOOLEAN
       /\ doc.kind # ret.kind => ~aux.equal

\* An Array holding Integer 1 has been compared with the I64Array holding 1, and
\* Integer 1 inside an Array with Number 1.0 inside an Array.
C12_MixedKindsCompared ==
  /\ pc = "Compared"
  /\ ~aux.equal
  /\ \/ /\ doc = Array(<<Integer(IntBytes(1, 8))>>)
        /\ ret = TypedArray("I64Array", <<IntBytes(1, 8)>>)
     \/ /\ doc = Integer(IntBytes(1, 8))
        /\ ret = Number(One(FALSE))

-----------------------------------------------------------------------------
(* Indexing by a string key.  doc is the node that is indexed, aux.key the *)
(* key, ret the document the index returned, err the failure.  An entry    *)
(* that an index returned can be assigned to, as in                        *)
(* array_interface["version"] = 3.                                         *)

\* Value::TypeStr: the name of the node's kind.
TypeStr(v) == v.kind

\* An index that returns the dummy document instead of failing.
ReturnDummy(v) == [ok |-> TRUE, node |-> v, val |-> Null]

\* Value::operator[](std::string const&): LOG(FATAL), whatever the key.
ValueIndex(v) ==
  [ok |-> FALSE, msg |-> "can not be indexed by string", type |-> TypeStr(v)]

\* A lookup that fails when the key is absent.
FindOrFail(v, key) ==
  IF MapHas(v.object_, key)
  THEN [ok |-> TRUE, node |-> v, val |-> MapGet(v.object_, key)]
  ELSE [ok |-> FALSE, msg |-> "key not found", type |-> TypeStr(v)]

\* Indexing an Object: the entry of the key, made with a Null document when the
\* Object has no entry for the key.
JsonObjectIndex(v, key) ==
  LET object_ == MapEmplace(v.object_, key, Null)
  IN [ok |-> TRUE, node |-> Object(object_), val |-> MapGet(object_, key)]

\* json[key]: the operator[] of the node's kind.
Index(v, key) == IF IsA(v, "Object") THEN JsonObjectIndex(v, key) ELSE ValueIndex(v)

IndexKeys == {Str(<<"d", "a", "t", "a">>), Str(<<"a">>), Str(<<"b">>)}

IndexValues == {Integer(IntBytes(3, 8)), String(Str(<<"f", "4">>)), Array(<<Null, Null>>)}

IndexDocs ==
  {Null, Boolean(TRUE), Integer(IntBytes(1, 8)), Number(One(FALSE)), String(Str(<<"a">>)),
   Array(<<>>), Array(<<Object(<<>>)>>), Object(<<>>),
   Object(<< <<Str(<<"a">>), Integer(IntBytes(1, 8))>> >>)}
    \cup {TypedArray(k, <<>>) : k \in TypedArrayKinds}

IndexInit ==
  /\ raw_str_ = <<>>
  /\ cursor_ = 0
  /\ stack = <<>>
  /\ err = NoError
  /\ doc \in IndexDocs
  /\ ret = Null
  /\ aux = [key |-> <<>>]
  /\ pc = "Ready"

\* doc[key] is evaluated.
IndexByString ==
  /\ pc = "Ready"
  /\ \E key \in IndexKeys :
       LET r == Index(doc, key)
       IN /\ aux' = [key |-> key]
          /\ IF r.ok
             THEN doc' = r.node /\ ret' = r.val /\ err' = NoError /\ pc' = "Indexed"
             ELSE doc' = doc /\ ret' = Null /\ err' = r /\ pc' = "Error"
  /\ UNCHANGED <<raw_str_, cursor_, stack>>

\* doc[key] = value: the entry the index returned is assigned.
AssignField ==
  /\ pc = "Indexed"
  /\ \E value \in IndexValues :
       /\ doc' = Object(MapAssign(doc.object_, aux.key, value))
       /\ ret' = value
  /\ pc' = "Ready"
  /\ UNCHANGED <<raw_str_, cursor_, stack, err, aux>>

\* The entry the index returned is only read.
ReadField ==
  /\ pc = "Indexed"
  /\ pc' = "Ready"
  /\ UNCHANGED <<raw_str_, cursor_, stack, ret, err, doc, aux>>

IndexNext == IndexByString \/ AssignField \/ ReadField

IndexSpec == IndexInit /\ [][IndexNext]_vars

\* C13: indexing by a string key a node whose kind is not Object fails: no
\* document is returned and the node is left unchanged.
C13_NotIndexable ==
  [][(pc = "Ready" /\ pc' # "Ready" /\ doc.kind # "Object")
       => /\ pc' = "Error"
          /\ err'.msg = "can not be indexed by string"
          /\ err'.type = doc.kind
          /\ ret' = Null
          /\ doc' = doc]_vars

\* An Array and a typed array have been indexed by a string key.
C13_ArrayIndexedByString ==
  /\ pc = "Error"
  /\ doc.kind \in {"Array", "U8Array"}
  /\ aux.key \in IndexKeys
  /\ ~err.ok

\* The step indexes an Object by a key it has no entry for.
IndexesAbsentKey ==
  /\ pc = "Ready"
  /\ pc' # "Ready"
  /\ doc.kind = "Object"
  /\ ~MapHas(doc.object_, aux'.key)

\* C14 (as found): indexing an Object by a key that is absent does not fail: it
\* adds the key to the Object with a Null document, leaves the other entries
\* as they were, and returns that Null document.
C14_AbsentKeyInserted ==
  [][IndexesAbsentKey
       => /\ pc' = "Indexed"
          /\ ret' = Null
          /\ MapHas(doc'.object_, aux'.key)
          /\ MapGet(doc'.object_, aux'.key) = Null
          /\ Len(doc'.object_) = Len(doc.object_) + 1
          /\ \A j \in 1..Len(doc.object_) :
               /\ MapHas(doc'.object_, doc.object_[j][1])
               /\ MapGet(doc'.object_, doc.object_[j][1]) = doc.object_[j][2]]_vars

\* C14 (as stated): indexing an Object by a key that is absent fails with
\* KeyNotFound: it returns no document and does not add the key to the Object.
C14_KeyNotFound ==
  [][IndexesAbsentKey => (pc' = "Error" /\ ret' = Null /\ doc' = doc)]_vars

\* The empty Object has been indexed by "data" and now holds that key.
C14_DataIndexed ==
  /\ pc = "Indexed"
  /\ aux.key = Str(<<"d", "a", "t", "a">>)
  /\ doc = Object(<< <<aux.key, Null>> >>)

-----------------------------------------------------------------------------
(* Two text dumps.  doc is dumped into raw_str_, which holds whatever the  *)
(* caller left in it; aux.first keeps the output of the first dump and     *)
(* aux.dumps counts the dumps.  Between the dumps the caller hands over a  *)
(* buffer again, for the same document or for one built anew with the same *)
(* content, as CheckConfigReloadImpl does.                                 *)

\* What the caller's buffer may hold before a dump.
PriorBuffers == {<<>>, Str(<<"x">>), Str(<<"[", "1", "]">>)}

DumpDocs ==
  TextDocs
    \cup {Object(<< <<Str(<<"a">>), Integer(IntBytes(1, 8))>>,
                    <<Str(<<"a", "b">>), Array(<<Null>>)>>,
                    <<Str(<<"b">>), Object(<< <<Str(<<"c">>), Boolean(FALSE)>> >>)>> >>)}

\* An Object filled anew, field by field, last field first; any other
\* document as it is.
RECURSIVE Refill(_, _)
Refill(fields, j) ==
  IF j = 0 THEN <<>>
  ELSE MapAssign(Refill(fields, j - 1), fields[Len(fields) + 1 - j][1],
                 fields[Len(fields) + 1 - j][2])

SavedAgain(v) == IF v.kind = "Object" THEN Object(Refill(v.object_, Len(v.object_))) ELSE v

DumpInit ==
  /\ cursor_ = 0
  /\ stack = <<>>
  /\ err = NoError
  /\ ret = Null
  /\ doc \in DumpDocs
  /\ raw_str_ \in PriorBuffers
  /\ aux = [binary |-> FALSE, first |-> <<>>, dumps |-> 0]
  /\ pc = "Dump"

\* Json::Dump(doc, &raw_str_): the text of doc is written into the buffer.
DumpText ==
  /\ pc = "Dump"
  /\ raw_str_' = Clear(raw_str_) \o JsonDump(doc, aux.binary)
  /\ aux' = [aux EXCEPT !.first = IF aux.dumps = 0 THEN raw_str_' ELSE @,
                        !.dumps = @ + 1]
  /\ pc' = IF aux.dumps = 0 THEN "Between" ELSE "Dumped"
  /\ UNCHANGED <<cursor_, stack, ret, err, doc>>

\* The caller dumps the same document again, into a buffer that holds anything.
DumpSame ==
  /\ pc = "Between"
  /\ raw_str_' \in PriorBuffers \cup {raw_str_}
  /\ pc' = "Dump"
  /\ UNCHANGED <<cursor_, stack, ret, err, doc, aux>>

\* The caller dumps a document saved anew with the same content.
DumpReloaded ==
  /\ pc = "Between"
  /\ doc.kind = "Object"
  /\ doc' = SavedAgain(doc)
  /\ raw_str_' \in PriorBuffers
  /\ pc' = "Dump"
  /\ UNCHANGED <<cursor_, stack, ret, err, aux>>

DumpNext == DumpText \/ DumpSame \/ DumpReloaded

DumpSpec == DumpInit /\ [][DumpNext]_vars

\* C15: text Dump is deterministic.  Dumping the same unchanged document twice,
\* or two documents with identical content, yields byte-identical output,
\* whatever the output buffer held before each call: the output is the text of
\* the document alone.
C15_DeterministicDump ==
  /\ pc = "Dumped" => raw_str_ = aux.first
  /\ pc \in {"Between", "Dumped"} => raw_str_ = JsonWriterSave(doc)

\* A document was dumped twice, the second time into a buffer that held other
\* bytes than the first time.
C15_DumpedTwice ==
  /\ pc = "Dumped"
  /\ aux.dumps = 2
  /\ doc.kind = "Object"
  /\ Len(doc.object_) = 3
  /\ Len(raw_str_) > 0

-----------------------------------------------------------------------------
(* The width the binary writer gives an Integer.                           *)

\* Whether the int64 i lies in the range of the signed type of n bytes.
InRange(i, n) == ~SLess(i, NumericMin(n)) /\ ~SLess(NumericMax(n), i)

\* The narrowest of the markers i, I, l, L whose range contains i.
NarrowestMarker(i) ==
  IF InRange(i, 1) THEN Ord("i")
  ELSE IF InRange(i, 2) THEN Ord("I")
  ELSE IF InRange(i, 4) THEN Ord("l")
  ELSE Ord("L")

\* C16: for every 64-bit Integer value the binary writer emits the narrowest of
\* the markers i, I, l, L whose range contains the value, the range boundaries
\* included: 127 and -128 are written with i, 32767 and -32768 with I, 2^31-1
\* and -2^31 with l.
C16_NarrowestMarker ==
  (aux.dumped /\ aux.binary /\ doc.kind = "Integer" /\ pc # "Dump")
    => raw_str_[1] = NarrowestMarker(doc.integer_)

-----------------------------------------------------------------------------
(* The graph of nodes.  The caller holds handles to two Arrays, an Object  *)
(* and an Integer, and mutates the containers in place through them: any   *)
(* handle can be appended to an Array or assigned to a field of an Object. *)

\* The most elements an Array node is given.
MaxElements == 2

ObjectNode(fields) == [kind |-> "Object", object_ |-> fields]

\* object[key] = child: the field holds a copy of the handle child.
ObjectAssign(hp, parent, key, child) ==
  LET c == CopyHandle(hp, child)
  IN [c.heap EXCEPT ![parent].object_ = MapAssign(@, key, c.handle)]

\* The handles a node holds.
Children(hp, h) ==
  CASE hp[h].kind = "Array" -> {hp[h].vec_[j] : j \in 1..Len(hp[h].vec_)}
    [] hp[h].kind = "Object" -> {hp[h].object_[j][2] : j \in 1..Len(hp[h].object_)}
    [] OTHER -> {}

\* The nodes reached from the set S in at most n steps.
RECURSIVE Within(_, _, _)
Within(hp, S, n) ==
  IF n = 0 THEN S
  ELSE Within(hp, S \cup UNION {Children(hp, x) : x \in S}, n - 1)

\* The nodes reachable from the node h through its elements.
ReachableFrom(hp, h) == Within(hp, Children(hp, h), Len(hp))

GraphInit ==
  /\ raw_str_ = <<>>
  /\ cursor_ = 0
  /\ stack = <<>>
  /\ ret = Null
  /\ err = NoError
  /\ doc = Null
  /\ aux = [heap |-> <<ArrayNode(<<>>), ArrayNode(<<>>), ObjectNode(<<>>), IntegerNode(1)>>]
  /\ pc = "Graph"

\* get<Array>(parent).emplace_back(child) for two handles the caller holds.
AppendHandle ==
  /\ pc = "Graph"
  /\ \E parent, child \in 1..Len(aux.heap) :
       /\ aux.heap[parent].kind = "Array"
       /\ Len(aux.heap[parent].vec_) < MaxElements
       /\ aux' = [heap |-> ArrayEmplaceBack(aux.heap, parent, child)]
  /\ UNCHANGED <<raw_str_, cursor_, stack, pc, ret, err, doc>>

\* parent[key] = child for two handles the caller holds.
AssignHandle ==
  /\ pc = "Graph"
  /\ \E parent, child \in 1..Len(aux.heap), key \in {Str(<<"a">>), Str(<<"b">>)} :
       /\ aux.heap[parent].kind = "Object"
       /\ aux' = [heap |-> ObjectAssign(aux.heap, parent, key, child)]
  /\ UNCHANGED <<raw_str_, cursor_, stack, pc, ret, err, doc>>

GraphNext == AppendHandle \/ AssignHandle

GraphSpec == GraphInit /\ [][GraphNext]_vars

\* C17: acyclicity.  After any sequence of construction, handle copy and
\* in-place mutation (Object field assignment, Array append) no Array or
\* Object node is reachable from itself through its elements.
C17_Acyclic ==
  pc = "Graph" => \A h \in 1..Len(aux.heap) : h \notin ReachableFrom(aux.heap, h)

-----------------------------------------------------------------------------
(* Numeric literals of the text reader.                                    *)

\* The text reader stands at a value position whose lookahead is c.
LooksAhead(c) ==
  /\ ~aux.binary
  /\ pc = "Parse"
  /\ PeekNextChar(raw_str_, SkipSpaces(raw_str_, cursor_)) = c

\* The node of the literal that follows the sign at the lookahead.
Unsigned == ParseNumber(raw_str_, SkipSpaces(raw_str_, cursor_) + 1)

\* C18: a numeric literal that begins with + is accepted at any value
\* position: the lookahead + goes to the number parser, and the literal
\* parses to the same node as the literal without the sign.
C18_PlusAccepted ==
  [][(LooksAhead(Ord("+")) /\ Unsigned.ok /\ ~Unsigned.ub)
       => (pc' # "Error" /\ ret' = Unsigned.val /\ cursor_' = Unsigned.pos)]_vars

\* The decimal literal at the lookahead: its sign, the digits of its integer
\* part, whether a . and an exponent marker follow, and whether a digit
\* follows the marker and its optional sign.
Literal19 ==
  LET s    == raw_str_
      q    == SkipSpaces(s, cursor_)
      neg  == CharAt(s, q) = Ord("-")
      p0   == IF neg THEN q + 1 ELSE q
      int  == ScanDigits(s, p0, Bytes(8), <<>>, FALSE)
      dot  == CharAt(s, int.p) = Ord(".")
      frac == IF dot THEN ScanDigits(s, int.p + 1, Bytes(8), <<>>, FALSE) ELSE int
      hasE == CharAt(s, frac.p) \in {Ord("E"), Ord("e")}
      p2   == IF CharAt(s, frac.p + 1) \in {Ord("-"), Ord("+")}
              THEN frac.p + 2 ELSE frac.p + 1
  IN [neg |-> neg, ds |-> int.ds, dot |-> dot, hasE |-> hasE,
      expDigit |-> IsDigit(CharAt(s, p2)), special |-> CharAt(s, p0) = Ord("I")]

\* The unsigned value of the digits ds in 64 bits, and whether it left them.
RECURSIVE Magnitude(_)
Magnitude(ds) ==
  IF Len(ds) = 0 THEN [val |-> Bytes(8), carry |-> FALSE]
  ELSE LET h == Magnitude(SubSeq(ds, 1, Len(ds) - 1))
           m == MulAdd10(h.val, ds[Len(ds)])
       IN [val |-> m.val, carry |-> h.carry \/ m.carry # 0]

\* The literal with sign neg and digits ds lies in the 64-bit signed range.
Fits64(neg, ds) ==
  /\ ~Magnitude(ds).carry
  /\ ~IsNegative(Magnitude(ds).val) \/ (neg /\ Magnitude(ds).val = Int64Min)

\* The signed decimal value of the literal.
DecimalValue(neg, ds) == IF neg THEN Negate(Magnitude(ds).val) ELSE Magnitude(ds).val

\* The text reader stands before a decimal literal (not NaN, not an infinity).
AtDecimalLiteral ==
  /\ \E c \in {Ord("-")} \cup {Ord("0") + d : d \in 0..9} : LooksAhead(c)
  /\ ~Literal19.special
  /\ Len(Literal19.ds) > 0

\* C19: a numeric literal parses to a Number node iff it contains a . or an
\* exponent, and otherwise to an Integer node holding the signed decimal
\* value of the literal, for every literal in the 64-bit signed range
\* (-9223372036854775808 included); an exponent marker with no digit after
\* it is a SyntaxError.
C19_NumericLiteral ==
  [][AtDecimalLiteral =>
       LET l == Literal19
       IN IF l.hasE /\ ~l.expDigit THEN pc' = "Error"
          ELSE IF l.dot \/ l.hasE THEN pc' \notin {"Error", "UB"} /\ ret'.kind = "Number"
          ELSE Fits64(l.neg, l.ds) =>
                 (pc' \notin {"Error", "UB"} /\ ret' = Integer(DecimalValue(l.neg, l.ds)))]_vars

-----------------------------------------------------------------------------
(* String literals of the text reader.                                     *)

\* The escapes with a single character, and that character.
EscapeOf(c) ==
  CASE c = Ord("r") -> Ord("\r")
    [] c = Ord("n") -> Ord("\n")
    [] c = Ord("\\") -> Ord("\\")
    [] c = Ord("t") -> Ord("\t")
    [] c = Ord("\"") -> Ord("\"")

Escapes == {Ord("r"), Ord("n"), Ord("\\"), Ord("t"), Ord("\"")}

\* The string literal whose body starts at offset p of s, read as the bytes of
\* the buffer: [ok, str, pos], str being the characters read so far.
RECURSIVE Unescape(_, _, _)
Unescape(s, p, str) ==
  IF p >= Len(s) THEN [ok |-> FALSE, str |-> str, pos |-> p]
  ELSE LET b == s[p + 1]
       IN IF b = Ord("\"") THEN [ok |-> TRUE, str |-> str, pos |-> p + 1]
          ELSE IF b \in {Ord("\r"), Ord("\n")} THEN [ok |-> FALSE, str |-> str, pos |-> p]
          ELSE IF b # Ord("\\") THEN Unescape(s, p + 1, str \o <<b>>)
          ELSE IF p + 1 >= Len(s) THEN [ok |-> FALSE, str |-> str, pos |-> p]
          ELSE IF s[p + 2] \in Escapes
          THEN Unescape(s, p + 2, str \o <<EscapeOf(s[p + 2])>>)
          ELSE IF s[p + 2] = Ord("u")
          THEN Unescape(s, p + 2, str \o <<Ord("\\"), Ord("u")>>)
          ELSE [ok |-> FALSE, str |-> str, pos |-> p]

\* The literal at the lookahead, its opening quote passed.
Literal20 == Unescape(raw_str_, SkipSpaces(raw_str_, cursor_) + 1, <<>>)

\* C20: inside a string literal the escapes \r, \n, \\, \t and \" become
\* their single characters, \u is copied through as backslash and u, the
\* string ends at the first unescaped quote, and any other escape, the end
\* of input or a raw CR or LF before the closing quote is a SyntaxError.
C20_StringLiteral ==
  [][LooksAhead(Ord("\"")) =>
       IF Literal20.ok
       THEN pc' # "Error" /\ ret' = String(Literal20.str) /\ cursor_' = Literal20.pos
       ELSE pc' = "Error" /\ ret' = Null]_vars

-----------------------------------------------------------------------------
(* The separators of the text reader's loops.                              *)

\* The next non-space character at the cursor, EndOfInput when there is none.
NextChar ==
  IF NextNonSpace(raw_str_, cursor_) = Len(raw_str_) THEN EndOfInput
  ELSE AsChar(raw_str_[NextNonSpace(raw_str_, cursor_) + 1])

\* The text reader has parsed an element of an Array or the value of a pair
\* of an Object whose closing character is close.
AfterElement(at, close) ==
  /\ ~aux.binary
  /\ pc = at
  /\ NextChar \notin {Ord(","), close}

\* C21: in the array loop and the object loop of the text reader, after each
\* element (or key:value pair) the next non-space character must be a comma
\* or the matching close character; any other character, the end of input
\* included, makes the parse fail, and these two do not.
C21_Separators ==
  [][/\ (AfterElement("ArrayElem", Ord("]")) \/ AfterElement("ObjectElem", Ord("}")))
          => (pc' = "Error" /\ ret' = Null /\ err'.msg = "Expecting")
     /\ (~aux.binary /\ pc \in {"ArrayElem", "ObjectElem"} /\ pc' = "Error")
          => (AfterElement("ArrayElem", Ord("]")) \/ AfterElement("ObjectElem", Ord("}")))]_vars

\* A text parse has failed at the end of the input, where a comma or the
\* close character was due after an element.
C21_FailedAtEnd ==
  /\ ~aux.binary
  /\ pc = "Error"
  /\ err.msg = "Expecting"
  /\ err.expected = Ord(",")
  /\ err.got = EndOfInput
  /\ raw_str_ = Str(<<"{", "\"", "a", "\"", ":", "1">>)

-----------------------------------------------------------------------------
(* The message of JsonReader::Error.                                       *)

kExtend == 8

\* The excerpt as it is printed: a line feed as \n, a NUL as \0.
RECURSIVE Portion(_)
Portion(raw_portion) ==
  IF Len(raw_portion) = 0 THEN <<>>
  ELSE LET c == raw_portion[1]
       IN (CASE c = Ord("\n") -> <<Ord("\\"), Ord("n")>>
             [] c = 0 -> <<Ord("\\"), Ord("0")>>
             [] OTHER -> <<c>>) \o Portion(Tail(raw_portion))

\* What JsonReader::Error adds to the message for the buffer s and the cursor
\* pos: at 0 the whole buffer and no marker line; elsewhere the excerpt
\* [beg, end) and under it the marker line of ~ with one ^.
ErrorMessage(s, pos) ==
  IF pos = 0
  THEN [beg |-> 0, end |-> Len(s), portion |-> s, marked |-> FALSE, marker |-> <<>>]
  ELSE LET beg == IF pos - kExtend < 0 THEN 0 ELSE pos - kExtend
           end == IF pos + kExtend >= Len(s) THEN Len(s) ELSE pos + kExtend
       IN [beg |-> beg, end |-> end,
           portion |-> Portion(SubSeq(s, beg + 1, end)),
           marked |-> TRUE,
           marker |-> [i \in 1..(pos - 1 - beg) |-> "~"] \o <<"^">>
                        \o [i \in 1..(end - pos) |-> "~"]]

\* A step of the text reader fails on the next non-space character of the
\* buffer: the character that can start no value, the one after an element
\* that is neither a comma nor the close character, or the one that should
\* have opened a key.
FailsOnNext ==
  /\ ~aux.binary
  /\ pc' = "Error"
  /\ NextNonSpace(raw_str_, cursor_) < Len(raw_str_)
  /\ \/ pc = "Parse" /\ err'.msg = "Unknown construct"
     \/ pc \in {"ArrayElem", "ObjectElem"}
     \/ pc = "ObjectLoop" /\ NextChar # Ord("\"")

\* The column of the character at index k in the printed excerpt from beg.
Column(s, beg, k) == Len(Portion(SubSeq(s, beg + 1, k)))

\* The column of the caret in a marker line.
Caret(marker) == (CHOOSE i \in 1..Len(marker) : marker[i] = "^") - 1
\* C22: the message of a SyntaxError holds an excerpt of the input of at most
\* 8 characters before and at most 8 after the failure position, clipped to
\* the buffer, and under it a marker line whose caret stands in the column of
\* the offending character in that excerpt, for every failure position,
\* 0 and 1 included.
C22_ErrorExcerpt ==
  [][FailsOnNext =>
       LET m == ErrorMessage(raw_str_, err'.pos)
       IN /\ m.marked
          /\ m.beg >= err'.pos - kExtend /\ m.beg <= err'.pos
          /\ m.end <= err'.pos + kExtend /\ m.end >= err'.pos
          /\ m.portion = Portion(SubSeq(raw_str_, m.beg + 1, m.end))
          /\ Caret(m.marker) = Column(raw_str_, m.beg, NextNonSpace(raw_str_, cursor_))]_vars

-----------------------------------------------------------------------------
(* Counted arrays of the binary format.                                    *)

\* The binary encodings of the elements vs, one after the other.
RECURSIVE Elements(_)
Elements(vs) ==
  IF Len(vs) = 0 THEN <<>> ELSE JsonDump(vs[1], TRUE) \o Elements(Tail(vs))

\* [ # L and the 8 bytes of the count n, most significant first.
CountedHeader(n) == <<Ord("["), Ord("#"), Ord("L")>> \o IntBytes(n, 8)

\* An Array without typed arrays has been dumped in binary mode.
ArrayDumped ==
  /\ aux.dumped /\ aux.binary
  /\ doc \in PlainDocs /\ doc.kind = "Array"
  /\ pc # "Dump"

\* C23, as the code has it: a counted array is [ # L, the 8-byte big-endian
\* count N and exactly N elements, with no closing bracket.  The binary
\* writer emits this form for every Array, and the binary reader consumes
\* exactly these bytes: the cursor is left after the last element, so the
\* value or the terminator that follows is parsed as such.
C23_CountedArray ==
  /\ ArrayDumped =>
       /\ raw_str_ = CountedHeader(Len(doc.vec_)) \o Elements(doc.vec_)
       /\ pc \in Terminal => (pc = "Done" /\ cursor_ = Len(raw_str_) /\ Equal(ret, doc))
  /\ (aux.binary /\ raw_str_ = NestedCounted /\ pc \in Terminal)
       => (pc = "Done" /\ cursor_ = Len(raw_str_) /\ ret = Array(<<Array(<<>>)>>))
  /\ (aux.binary /\ raw_str_ = NestedClosed /\ pc \in Terminal)
       => (pc = "Done" /\ cursor_ = Len(raw_str_) - 1 /\ ret = Array(<<Array(<<>>)>>))

\* C23, as stated: the counted array ends with a closing bracket, which the
\* writer emits and the reader consumes.
C23_ClosingBracket ==
  /\ ArrayDumped =>
       raw_str_ = CountedHeader(Len(doc.vec_)) \o Elements(doc.vec_) \o <<Ord("]")>>
  /\ (aux.binary /\ raw_str_ = NestedClosed /\ pc \in Terminal)
       => (pc = "Done" /\ cursor_ = Len(raw_str_))

\* An Array holding counted arrays between other values has been dumped in
\* binary mode and read back to its end.
C23_NestedReadBack ==
  /\ ArrayDumped
  /\ doc = Array(<<Array(<<>>), Integer(IntBytes(1, 8)), Array(<<Null>>), String(Str(<<"a">>))>>)
  /\ pc = "Done"
  /\ cursor_ = Len(raw_str_)

-----------------------------------------------------------------------------
(* Typed arrays of the binary format.                                      *)

\* The type codes of the typed arrays that have one.
CodeOf(k) ==
  CASE k = "F32Array" -> Ord("d")
    [] k = "F64Array" -> Ord("D")
    [] k = "I8Array" -> Ord("i")
    [] k = "U8Array" -> Ord("U")
    [] k = "I16Array" -> Ord("I")
    [] k = "I32Array" -> Ord("l")
    [] k = "I64Array" -> Ord("L")

\* The elements vs of a typed array of kind k as sizeof(T) bytes each, most
\* significant byte first, one after the other.
RECURSIVE Packed(_, _)
Packed(k, vs) ==
  IF Len(vs) = 0 THEN <<>>
  ELSE (IF k \in {"F32Array", "F64Array"} THEN FloatBytes(vs[1], ElemSize(k)) ELSE vs[1])
         \o Packed(k, Tail(vs))

\* A typed array that has a type code has been dumped in binary mode.
TypedArrayDumped ==
  /\ aux.dumped /\ aux.binary
  /\ doc.kind \in UBJVisited
  /\ pc # "Dump"

\* C24: for each typed-array kind with a type code, binary Dump of an array
\* of n elements emits [ $ type # L, the 8-byte big-endian count n and then
\* exactly n elements of sizeof(T) bytes each, most significant byte first,
\* without markers or padding: 13 + n * sizeof(T) bytes; binary Load of these
\* bytes returns a typed array of the same kind with the same n elements in
\* the same order.
C24_TypedArrayLayout ==
  TypedArrayDumped =>
    /\ raw_str_ = <<Ord("["), Ord("$"), CodeOf(doc.kind), Ord("#"), Ord("L")>>
                    \o IntBytes(Len(doc.vec_), 8)
                    \o Packed(doc.kind, doc.vec_)
    /\ Len(raw_str_) = 13 + Len(doc.vec_) * ElemSize(doc.kind)
    /\ pc \in Terminal =>
         (pc = "Done" /\ ret.kind = doc.kind /\ ret.vec_ = doc.vec_
            /\ cursor_ = Len(raw_str_))

\* An I32Array of two different elements has been dumped in binary mode and
\* read back.
C24_TwoElementsReadBack ==
  /\ TypedArrayDumped
  /\ doc = TypedArray("I32Array", <<IntBytes(1, 4), Bytes(4)>>)
  /\ pc = "Done"
  /\ ret = doc

-----------------------------------------------------------------------------
(* The cursor of the text reader.                                          *)

\* The text reader is inside a parse.
InTextParse ==
  /\ ~aux.binary
  /\ pc \in {"Parse", "ParseArray", "ArrayLoop", "ArrayElem",
             "ParseObject", "ObjectLoop", "ObjectElem"}

\* C25: during a text parse the cursor position never decreases: every step
\* of every parse routine leaves it where it is or moves it forward, inside
\* the buffer, and the input buffer is never modified.
C25_CursorMonotonic ==
  [][InTextParse =>
       /\ cursor_' >= cursor_
       /\ cursor_' <= Len(raw_str_)
       /\ raw_str_' = raw_str_]_vars

\* A text of more than one value has been parsed to its end.
C25_ParsedToEnd ==
  /\ ~aux.binary /\ ~aux.dumped
  /\ pc = "Done"
  /\ ret.kind = "Array" /\ Len(ret.vec_) = 2
  /\ cursor_ = Len(raw_str_)
  /\ cursor_ > 8

-----------------------------------------------------------------------------
(* Integer typed arrays in the text format.                                *)

\* The decimal digits of the exact value of the element e of an integer
\* typed array of kind k, with '-' before them for a negative value.
ExactText(k, e) ==
  IF IsUnsignedKind(k) THEN DigitChars(UDigits(ZeroExtend(e, 8)))
  ELSE IF IsNegative(e) THEN <<Ord("-")>> \o DigitChars(UDigits(Negate(SignExtend(e, 8))))
  ELSE DigitChars(UDigits(SignExtend(e, 8)))

\* The texts of the elements vs joined by commas.
RECURSIVE Joined(_, _)
Joined(k, vs) ==
  IF Len(vs) = 0 THEN <<>>
  ELSE ExactText(k, vs[1])
         \o (IF Len(vs) > 1 THEN <<Ord(",")>> ELSE <<>>)
         \o Joined(k, Tail(vs))

\* C26: when the text writer degrades an integer typed array, every element
\* is written as the decimal digits of its exact numeric value; a U64Array
\* element v >= 2^63 is written as v and not as a negative number.
C26_ExactDigits ==
  (aux.dumped /\ ~aux.binary /\ doc.kind \in IntegerArrayKinds /\ pc # "Dump")
    => raw_str_ = <<Ord("[")>> \o Joined(doc.kind, doc.vec_) \o <<Ord("]")>>

-----------------------------------------------------------------------------
(* The cursor of the binary reader.                                        *)

\* C27: in every reachable state of a binary parse the cursor lies between 0
\* and the length of the buffer and no byte outside the buffer is read; a
\* string length, a count or a fixed-width primitive that extends past the
\* end of the buffer makes the parse fail instead.
C27_CursorInBounds ==
  aux.binary =>
    /\ pc # "UB"
    /\ cursor_ >= 0 /\ cursor_ <= Len(raw_str_)
    /\ (raw_str_ \in {ShortCounted, ShortKey} /\ pc \in Terminal) => pc = "Error"

-----------------------------------------------------------------------------
(* Equality as a relation.                                                 *)

\* C28: structural equality is reflexive and symmetric for every kind: every
\* document equals itself, Numbers and F32Array or F64Array elements that
\* are NaN or infinite included, and a == b holds iff b == a holds.
C28_ReflexiveSymmetric ==
  pc = "Compared" =>
    /\ doc = ret => aux.equal
    /\ aux.equal = (~Raises(ret, doc) /\ Equal(ret, doc))

-----------------------------------------------------------------------------
(* Whitespace in the text format.                                          *)

\* Valid texts with spaces, tabs, CR or LF around their tokens, each with
\* the document the text without them parses to.
SpacedTexts ==
  LET one == Integer(IntBytes(1, 8))
  IN {[text |-> Str(<<"[", " ", "]">>), doc |-> Array(<<>>)],
      [text |-> Str(<<"{", " ", "}">>), doc |-> Object(<<>>)],
      [text |-> Str(<<" ", "1">>), doc |-> one],
      [text |-> Str(<<"[", " ", "1", "]">>), doc |-> Array(<<one>>)],
      [text |-> Str(<<"[", "1", " ", "]">>), doc |-> Array(<<one>>)],
      [text |-> Str(<<" ", "[", "\t", "1", "\r", ",", "\n", "1", " ", "]", " ">>),
       doc |-> Array(<<one, one>>)],
      [text |-> Str(<<" ", "{", "\t", "\"", "a", "\"", "\r", ":", "\n", "1", " ", "}", " ">>),
       doc |-> Object(<<<<Str(<<"a">>), one>>>>)]}

\* C29: whitespace between tokens does not change the result of a text
\* parse: with spaces, tabs, CR or LF before or after a structural token or
\* a value, a valid text yields a structurally equal document; [ ] parses to
\* the empty Array and { } to the empty Object.
C29_WhitespaceIgnored ==
  \A e \in SpacedTexts :
    (~aux.binary /\ ~aux.dumped /\ raw_str_ = e.text /\ pc \in Terminal)
      => (pc = "Done" /\ Equal(ret, e.doc))

-----------------------------------------------------------------------------
(* Buffers without a value.                                                *)

\* The buffer is empty or, in text mode, holds nothing but whitespace.
NoValue ==
  /\ ~aux.dumped
  /\ \/ Len(raw_str_) = 0
     \/ ~aux.binary /\ \A k \in 1..Len(raw_str_) : raw_str_[k] \in {32, 9, 10, 13}

\* C30: parsing an empty buffer or, in text mode, a buffer that holds only
\* whitespace does not fail: the text reader and the binary reader return a
\* Null document, with the cursor at the end of the buffer.
C30_EmptyIsNull ==
  (NoValue /\ pc \in Terminal)
    => (pc = "Done" /\ ret = Null /\ err = NoError /\ cursor_ = Len(raw_str_))

\* A text of a space, a tab, a CR and a LF has been loaded.
C30_WhitespaceLoaded ==
  /\ ~aux.binary /\ ~aux.dumped
  /\ raw_str_ = Str(<<" ", "\t", "\r", "\n">>)
  /\ pc = "Done"
  /\ ret = Null
  /\ cursor_ = 4

====
